---------------------------- MODULE Spec2Model ----------------------------
(***************************************************************************)
(* Vidown download orchestration: the service worker's queue manager       *)
(* (src/service_worker.js) and the native worker's job manager             *)
(* (src/unnamed/part_008, package job).                                    *)
(*                                                                         *)
(* Spec       the queue manager.  Every event handler of the service       *)
(*            worker runs to completion (one JavaScript task), so each is  *)
(*            one action.  The browser's download service and the native   *)
(*            worker are the environment.                                  *)
(* FairSpec   Spec with weak fairness on every step the browser's event    *)
(*            loop, its timers and the worker guarantee to take.           *)
(* QueueSpec  Spec with more jobs and a single disturbance, for pending    *)
(*            lists of several jobs.                                       *)
(* WorkerSpec the native worker's job manager: the command loop, the runs  *)
(*            of the jobs and the events they send.                        *)
(***************************************************************************)
EXTENDS Naturals, Integers, Sequences, FiniteSets, Bags, TLC

\* ---------------------------------------------------------------- bounds
\* How many jobs are ever enqueued (jobIdCounter stops there).
MaxJobs == 3
\* How many disturbances there are in all: the pause/resume/cancel requests
\* of the user, and the failures the environment injects (a download the
\* browser refuses or interrupts, an error event of the worker, the native
\* port breaking).
MaxDisturbances == 3
\* The same two bounds for the specification of long pending lists.
MaxQueueJobs == 5
MaxQueueDisturbances == 1
\* The worker: how many download commands and cancel commands it is sent, and
\* how many progress events one run emits.
MaxStarts == 2
MaxCancels == 2
MaxProgress == 1
\* The same three bounds for the specification of one job's progress events.
MaxProgressStarts == 1
MaxProgressCancels == 1
MaxProgressEvents == 3
\* The worker's command loop: download, cancel and other commands it reads,
\* and progress events of one run.
MaxLoopStarts == 1
MaxLoopCancels == 1
MaxLoopOthers == 2
MaxLoopProgress == 1
\* The HLS downloader of the node host: jobs enqueued, segments of a playlist.
MaxHlsJobs == 2
\* The framing: how many messages are sent, and the length of a long string.
MaxPaths == 2
MaxDashJobs == 2
MaxDashSegments == 2
MaxSelectJobs == 1
MaxRateStarts == 1
MaxRateEvents == 3
MaxRateBytes == 4
MaxRateDelta == 2
MaxRateClock == 1759
RateStep == 250
MaxPlaylists == 2
MaxBandwidth == 2
MinClock == 9
MaxClock == 10
MaxIdJobs == 3
MaxIdDisturbances == 1
MaxFilesStarts == 2
MaxFilesCancels == 1
MaxFilesProgress == 1
MaxSends == 3
LongLen == 250
\* The byte counts: jobs enqueued, failures injected, and the most bytes one
\* browser download or one run of the worker reports.
MaxBytesJobs == 2
MaxBytesDisturbances == 1
MaxBytes == 2
MaxSegments == 3

\* ------------------------------------------------------ program constants
MAX_CONCURRENT == 2
DEFAULT_MAX_RETRIES == 3
BACKOFF_BASE_MS == 1000
BACKOFF_CAP_MS == 30000

JobIds == 1..(MaxJobs + MaxQueueJobs)

\* The ids the coordinator uses in commands to the worker.
WorkerIds == {1, 2}

\* What enqueueJob can be given: item.mode || detectMode(item.url), and whether
\* item.url is an http(s) URL.
JobKinds ==
  { [mode |-> "http", httpUrl |-> TRUE],
    [mode |-> "hls",  httpUrl |-> TRUE],
    [mode |-> "blob", httpUrl |-> FALSE] }

Terminal == {"complete", "error", "cancelled"}

VARIABLES
  jobs,          \* job id -> the job record (every job ever enqueued)
  jobQueue,      \* the pending list: a sequence of job ids
  activeJobs,    \* the keys of the activeJobs map
  jobIdCounter,
  clock,         \* what Date.now() returns
  DL,            \* downloadId -> job id
  nativePort,    \* "null" | "open" | "dead" (disconnected, onDisconnect not yet run)
  timers,        \* bag of pending setTimeout callbacks [job, delay]
  pendingCb,     \* job id -> chrome.downloads.download callbacks not yet run
  downloads,     \* the browser's downloads: downloadId -> its state there
  wKnown,        \* ids in the worker's job map
  wRuns,         \* job id -> worker runs that have not reported done/error yet
  wCanceled,     \* job id -> canceled events the worker owes
  wWritten,      \* job id -> bytes the job's latest run has written (total_size)
  dlBytes,       \* downloadId -> bytes the browser has received for it
  nativeApi,     \* whether chrome.runtime.connectNative is available (fixed)
  nCommands,     \* pause/resume/cancel requests made so far
  nFaults,       \* failures injected so far
  onlyEnqueues,  \* history: no handler but enqueueJob has run so far
  limits,        \* the bounds of this behaviour: [jobs, disturbances]
  cycles,        \* history: job id -> retrying->queued re-insertions so far
  \* ---- the native worker (package job)
  mgrJobs,       \* Manager.jobs: id -> the run (index into runs) it maps to
  runs,          \* every Job started: [id, pc, ctxDone, convert, progress, out, ffmpeg]
  files,         \* output path -> what is at path.part, path.part.converted, path
  out,           \* the events written by ipc.Send, in order: [type, id]
  nCancels,      \* cancel commands received so far
  wLimits,       \* the bounds of this behaviour: [starts, cancels, progress, others, paths]
  msgType,       \* main: the type of the command read last ("" before the first)
  nOthers,       \* commands other than download and cancel read so far
  stopped,       \* main has returned: the process has exited
  probing,       \* main is inside handleProbe, waiting for ffprobe
  \* ---- the node host (vidown-native.js, hls-downloader.js)
  host,          \* job id -> its handleDownload: where it is (pc), the segments
                 \* (n of them, i done), the temporary directory and the files
                 \* in it (segs, tracks), the requests made (req), segmentPaths
                 \* (paths), what the assembler was given (concatIn, muxed)
  hostOut,       \* the messages written by sendMessage, not yet delivered
  \* ---- the framing (package ipc)
  wire,          \* every byte written to os.Stdout so far, in order
  readPos,       \* how many bytes of the wire ReadMsg has consumed
  sender,        \* goroutine -> its call of Send: [pc, msg]
  sendMu,        \* the goroutine holding sendMu, "" when it is free
  sentLog,       \* the messages whose Send has returned, in order
  received       \* what ReadMsg has returned so far, in order

swVars == << jobs, jobQueue, activeJobs, jobIdCounter, clock, DL, nativePort, timers,
             pendingCb, downloads, wKnown, wRuns, wCanceled, wWritten, dlBytes,
             nativeApi, nCommands, nFaults, onlyEnqueues, cycles, limits >>

workerVars == << mgrJobs, runs, files, out, nCancels, wLimits, msgType, nOthers, stopped,
                 probing >>

hostVars == << host, hostOut >>

ipcVars == << wire, readPos, sender, sendMu, sentLog, received >>

vars == << swVars, workerVars, hostVars, ipcVars >>

\* The state the handlers read and write, as one record.
Cur ==
  [ jobs |-> jobs, jobQueue |-> jobQueue, activeJobs |-> activeJobs,
    jobIdCounter |-> jobIdCounter, DL |-> DL, nativePort |-> nativePort,
    timers |-> timers, pendingCb |-> pendingCb, downloads |-> downloads,
    wKnown |-> wKnown, wRuns |-> wRuns, wCanceled |-> wCanceled,
    wWritten |-> wWritten, clock |-> clock ]

Min(a, b) == IF a < b THEN a ELSE b

RECURSIVE Pow2(_)
Pow2(n) == IF n = 0 THEN 1 ELSE 2 * Pow2(n - 1)

\* Math.min(1000 * Math.pow(2, job.retries), 30000)
Backoff(r) == Min(BACKOFF_BASE_MS * Pow2(r), BACKOFF_CAP_MS)

\* null, where a number is expected (size, percent).
Null == -1

\* The non-negative floating-point values (speeds, in bytes per second) are
\* kept exactly, as fractions in lowest terms.
RECURSIVE Gcd(_, _)
Gcd(a, b) == IF b = 0 THEN a ELSE Gcd(b, a % b)

Rat(n, d) == IF n = 0 THEN [num |-> 0, den |-> 1]
             ELSE [num |-> n \div Gcd(n, d), den |-> d \div Gcd(n, d)]

Zero == Rat(0, 1)

\* alpha * inst + (1 - alpha) * ema, with alpha = 0.25
Ema(inst, ema) == Rat(inst.num * ema.den + 3 * ema.num * inst.den, 4 * inst.den * ema.den)

\* int(x), Math.floor(x) and Math.ceil(x) of x = n / r, r > 0
FloorDiv(n, r) == (n * r.den) \div r.num

CeilDiv(n, r) == (n * r.den + r.num - 1) \div r.num

Floor(r) == r.num \div r.den

\* enqueueJob's job record; kind.size is item.size where the kind has one.
NewJob(kind) ==
  [ id |-> << >>, state |-> "queued", mode |-> kind.mode, httpUrl |-> kind.httpUrl,
    retries |-> 0, maxRetries |-> DEFAULT_MAX_RETRIES, downloadId |-> 0,
    size |-> IF "size" \in DOMAIN kind /\ kind.size # 0 THEN kind.size ELSE Null,
    bytesReceived |-> 0, percent |-> 0,
    speedBytesPerSec |-> Zero, etaSeconds |-> Null, lastTick |-> 0 ]

RECURSIVE ProcessQueue(_)
RECURSIVE StartJob(_, _)
RECURSIVE HandleJobError(_, _)

\* chrome.runtime.connectNative returns a port, or throws where the
\* extension has no native messaging (caught: nativePort = null).
ConnectNative(S) ==
  [S EXCEPT !.nativePort = IF nativeApi THEN "open" ELSE "null"]

\* The chrome.downloads.download call: its callback runs in a later task.
StartChromeDownload(S, j) ==
  [S EXCEPT !.pendingCb[j] = @ + 1]

\* postMessage on a disconnected port throws; on an open one the worker's
\* Manager.Start enters the job in its map and starts a run.
StartNativeDownload(S, j) ==
  LET S1 == IF S.nativePort = "null" THEN ConnectNative(S) ELSE S
  IN  IF S1.nativePort = "null" THEN HandleJobError(S1, j)
      ELSE IF S1.nativePort = "dead" THEN HandleJobError(S1, j)
      ELSE [S1 EXCEPT !.wKnown = @ \cup {j}, !.wRuns[j] = @ + 1, !.wWritten[j] = 0]

StartJob(S, j) ==
  LET S1 == [S EXCEPT !.jobs[j].state = "active",
                      !.activeJobs = @ \cup {j}]
  IN  IF ~S1.jobs[j].httpUrl THEN HandleJobError(S1, j)
      ELSE IF S1.jobs[j].mode \in {"hls", "dash"} THEN StartNativeDownload(S1, j)
      ELSE IF S1.jobs[j].mode = "blob" THEN HandleJobError(S1, j)
      ELSE StartChromeDownload(S1, j)

\* Mutant of ProcessQueue: admits while activeJobs.size <= MAX_CONCURRENT.
ProcessQueueOffByOne(S) ==
  IF Cardinality(S.activeJobs) <= MAX_CONCURRENT /\ Len(S.jobQueue) > 0
  THEN ProcessQueue(StartJob([S EXCEPT !.jobQueue = Tail(@)], Head(S.jobQueue)))
  ELSE S

ProcessQueue(S) ==
  IF Cardinality(S.activeJobs) < MAX_CONCURRENT /\ Len(S.jobQueue) > 0
  THEN ProcessQueue(StartJob([S EXCEPT !.jobQueue = Tail(@)], Head(S.jobQueue)))
  ELSE S

\* Mutant of HandleJobError: retries while retries <= maxRetries.
HandleJobErrorOneMore(S, j) ==
  LET r == S.jobs[j].retries + 1
  IN  IF r <= S.jobs[j].maxRetries
      THEN [S EXCEPT !.jobs[j].retries = r,
                     !.jobs[j].state = "retrying",
                     !.timers = @ (+) SetToBag({[job |-> j, delay |-> Backoff(r)]})]
      ELSE ProcessQueue([S EXCEPT !.jobs[j].retries = r,
                                  !.jobs[j].state = "error",
                                  !.activeJobs = @ \ {j}])

HandleJobError(S, j) ==
  LET r == S.jobs[j].retries + 1
  IN  IF r < S.jobs[j].maxRetries
      THEN [S EXCEPT !.jobs[j].retries = r,
                     !.jobs[j].state = "retrying",
                     !.timers = @ (+) SetToBag({[job |-> j, delay |-> Backoff(r)]})]
      ELSE ProcessQueue([S EXCEPT !.jobs[j].retries = r,
                                  !.jobs[j].state = "error",
                                  !.activeJobs = @ \ {j}])

\* Mutant of CompleteJob: does not advance the queue.
CompleteJobNoAdvance(S, j) ==
  [S EXCEPT !.jobs[j].state = "complete", !.activeJobs = @ \ {j}]

CompleteJob(S, j) ==
  ProcessQueue([S EXCEPT !.jobs[j].state = "complete",
                         !.activeJobs = @ \ {j}])

\* Mutant of RetryExpired: re-inserts at the back of the pending list.
RetryExpiredAtBack(S, j) ==
  ProcessQueue([S EXCEPT !.activeJobs = @ \ {j},
                         !.jobQueue = Append(@, j)])

\* The body of the setTimeout callback of handleJobError.
RetryExpired(S, j) ==
  ProcessQueue([S EXCEPT !.activeJobs = @ \ {j},
                         !.jobQueue = <<j>> \o @])

\* The decimal digits of n >= 0, as bytes.
RECURSIVE Digits(_)
Digits(n) == IF n < 10 THEN << 48 + n >> ELSE Digits(n \div 10) \o << 48 + (n % 10) >>

\* Mutant of GenerateJobId: the id is made of the time alone.
GenerateJobIdNoCounter(S) ==
  << 106, 111, 98, 45 >> \o Digits(S.clock)

\* generateJobId's string `job-${Date.now()}-${++jobIdCounter}`, as bytes.
GenerateJobId(S) ==
  << 106, 111, 98, 45 >> \o Digits(S.clock) \o << 45 >> \o Digits(S.jobIdCounter + 1)

\* enqueueJob.  The model names a job by its place in jobs, the value of
\* jobIdCounter at its enqueue; its id is the field id of its record.
EnqueueJob(S, kind) ==
  LET id == S.jobIdCounter + 1
  IN  ProcessQueue([S EXCEPT !.jobIdCounter = id,
                             !.jobs = Append(@, [NewJob(kind) EXCEPT !.id = GenerateJobId(S),
                                                                   !.lastTick = S.clock]),
                             !.jobQueue = Append(@, id)])

\* The callback of chrome.downloads.download of job j: `ok` is whether the
\* browser started the download (no lastError and a download id).
DownloadCallback(S, j, ok) ==
  LET S0 == [S EXCEPT !.pendingCb[j] = @ - 1]
      id == Len(S.downloads) + 1
  IN  IF ok
      THEN [S0 EXCEPT !.jobs[j].downloadId = id,
                      !.DL = (id :> j) @@ @,
                      !.downloads = Append(@, "in_progress")]
      ELSE HandleJobError(S0, j)

\* The chrome.downloads.onChanged listener, for a delta that carries the
\* state st of download id.
DownloadChanged(S, id, st) ==
  IF id \notin DOMAIN S.DL THEN S
  ELSE LET S0 == [S EXCEPT !.DL = [d \in (DOMAIN S.DL) \ {id} |-> S.DL[d]]]
       IN  IF st = "complete" THEN CompleteJob(S0, S.DL[id])
           ELSE IF st = "interrupted" THEN HandleJobError(S0, S.DL[id])
           ELSE S

\* chrome.downloads.pause / resume / cancel as the browser applies them.
BrowserPause(dls, id) ==
  IF id \in DOMAIN dls /\ dls[id] = "in_progress" THEN [dls EXCEPT ![id] = "paused"] ELSE dls

BrowserResume(dls, id) ==
  IF id \in DOMAIN dls /\ dls[id] = "paused" THEN [dls EXCEPT ![id] = "in_progress"] ELSE dls

BrowserCancel(dls, id) ==
  IF id \in DOMAIN dls /\ dls[id] \in {"in_progress", "paused"}
  THEN [dls EXCEPT ![id] = "cancelled"] ELSE dls

PauseJob(S, j) ==
  IF j \notin S.activeJobs THEN S
  ELSE [S EXCEPT !.jobs[j].state = "paused",
                 !.downloads = BrowserPause(@, S.jobs[j].downloadId)]

ResumeJob(S, j) ==
  IF j \notin S.activeJobs THEN S
  ELSE [S EXCEPT !.jobs[j].state = "active",
                 !.downloads = BrowserResume(@, S.jobs[j].downloadId)]

\* jobQueue.findIndex(j => j.id === jobId), 1-based; 0 when absent
FindIndex(q, j) ==
  IF \E i \in 1..Len(q) : q[i] = j
  THEN CHOOSE i \in 1..Len(q) : q[i] = j /\ \A k \in 1..(i - 1) : q[k] # j
  ELSE 0

\* jobQueue.splice(idx, 1)
Splice(q, idx) == SubSeq(q, 1, idx - 1) \o SubSeq(q, idx + 1, Len(q))

\* The worker's Manager.Cancel, as far as the queue manager sees it: the id
\* leaves the worker's map and a "canceled" event is owed.
WorkerCancel(S, j) ==
  IF j \in S.wKnown
  THEN [S EXCEPT !.wKnown = @ \ {j}, !.wCanceled[j] = @ + 1]
  ELSE S

\* Mutant of CancelJob: a queued job is cancelled like an active one, and the
\* queue is advanced.
CancelJobAdvancing(S, j) ==
  LET idx == FindIndex(S.jobQueue, j)
  IN  IF j \notin S.activeJobs /\ idx = 0 THEN S
      ELSE ProcessQueue([S EXCEPT !.jobQueue = IF idx > 0 THEN Tail(@) ELSE @,
                                  !.jobs[j].state = "cancelled",
                                  !.activeJobs = @ \ {j}])

CancelJob(S, j) ==
  IF j \notin S.activeJobs
  THEN LET idx == FindIndex(S.jobQueue, j)
       IN  IF idx > 0
           THEN [S EXCEPT !.jobQueue = Splice(@, idx), !.jobs[j].state = "cancelled"]
           ELSE S
  ELSE LET S1 == [S EXCEPT !.downloads = BrowserCancel(@, S.jobs[j].downloadId)]
           S2 == IF S1.jobs[j].mode \in {"hls", "dash"} /\ S1.nativePort = "open"
                 THEN WorkerCancel(S1, j) ELSE S1
       IN  ProcessQueue([S2 EXCEPT !.jobs[j].state = "cancelled",
                                   !.activeJobs = @ \ {j}])

\* Mutant of HandleNativeMessage: a canceled event does not advance the queue.
HandleNativeMessageNoAdvance(S, j, type) ==
  IF j \notin S.activeJobs THEN S
  ELSE IF type = "done" THEN CompleteJob(S, j)
  ELSE IF type = "canceled"
       THEN [S EXCEPT !.jobs[j].state = "cancelled", !.activeJobs = @ \ {j}]
  ELSE IF type = "error" THEN HandleJobError(S, j)
  ELSE S

\* handleNativeMessage for the messages that carry a job id.
HandleNativeMessage(S, j, type) ==
  IF j \notin S.activeJobs THEN S
  ELSE IF type = "done" THEN CompleteJob(S, j)
  ELSE IF type = "canceled"
       THEN ProcessQueue([S EXCEPT !.jobs[j].state = "cancelled",
                                   !.activeJobs = @ \ {j}])
  ELSE IF type = "error" THEN HandleJobError(S, j)
  ELSE S

\* fmtPercent(bytes, total)
FmtPercent(bytes, total) ==
  IF total = Null \/ total <= 0 THEN Null
  ELSE LET p == (bytes * 100) \div total
       IN  IF p < 0 THEN 0 ELSE IF p > 100 THEN 100 ELSE p

\* msg[k], or d where the message has no such key (undefined).
Field(msg, k, d) == IF k \in DOMAIN msg THEN msg[k] ELSE d

\* handleNativeMessage(msg) for a whole message: it dispatches on msg.type.
HandleNativeMsg(S, msg) ==
  LET type == Field(msg, "type", "undefined")
      id == Field(msg, "id", 0)
      given == Field(msg, "percent", 0)
      total == Field(msg, "totalBytes", 0)
      bytes == Field(msg, "bytesReceived", 0)
  IN  IF type \in {"hello", "probe-result"} THEN S
      ELSE IF id = 0 \/ id \notin S.activeJobs THEN S
      ELSE IF type = "progress"
           THEN [S EXCEPT !.jobs[id].bytesReceived = IF bytes = Null THEN 0 ELSE bytes,
                          !.jobs[id].speedBytesPerSec = Rat(Field(msg, "speedBps", 0), 1),
                          !.jobs[id].etaSeconds =
                            IF Field(msg, "etaSec", 0) = 0 THEN Null ELSE msg.etaSec,
                          !.jobs[id].percent =
                            IF given # 0 /\ given # Null THEN given
                            ELSE IF total > 0 THEN FmtPercent(bytes, total) ELSE 0]
      ELSE HandleNativeMessage(S, id, type)

\* A speedBytesPerSec of null or undefined.
NoSpeed == [num |-> 0, den |-> 0]

\* updateSpeedAndEta(job, bytesReceived) when nowMs() returns t.  No code
\* gives a job the property expectedTotalBytes (the size is job.size).
UpdateSpeedAndEta(job, t, bytesReceived) ==
  LET dt == t - (IF job.lastTick = 0 THEN t ELSE job.lastTick)
      dBytes == bytesReceived - job.bytesReceived
      inst == IF dt > 0 /\ dBytes >= 0 THEN Rat(dBytes * 1000, dt) ELSE Zero
      speed == IF job.speedBytesPerSec = NoSpeed THEN inst
               ELSE Ema(inst, job.speedBytesPerSec)
      expected == Field(job, "expectedTotalBytes", 0)
      remaining == IF expected > 0
                   THEN (IF expected - bytesReceived < 0 THEN 0 ELSE expected - bytesReceived)
                   ELSE Null
  IN  [job EXCEPT !.speedBytesPerSec = speed,
                  !.etaSeconds = IF remaining # Null /\ speed # Zero
                                 THEN CeilDiv(remaining, speed) ELSE Null,
                  !.lastTick = t]

\* The chrome.downloads.onChanged listener, for a delta that carries
\* bytesReceived (and totalBytes, when total > 0) of download id.
DownloadProgress(S, id, bytes, total) ==
  IF id \notin DOMAIN S.DL THEN S
  ELSE LET j == S.DL[id]
           size == IF total > 0 /\ S.jobs[j].size = Null THEN total ELSE S.jobs[j].size
           t == IF size # Null /\ size # 0 THEN size ELSE total
           p == FmtPercent(bytes, t)
           job == [S.jobs[j] EXCEPT !.size = size,
                                    !.bytesReceived = bytes,
                                    !.percent = IF p = Null THEN 0 ELSE p]
       IN  [S EXCEPT !.jobs[j] = UpdateSpeedAndEta(job, S.clock, job.bytesReceived)]

\* The percent Job.sendProgress computes: 0 unless totalBytes > 0.
GoPercent(bytes, total) ==
  IF total > 0 THEN Min((bytes * 100) \div total, 100) ELSE 0

\* The progress event Job.sendProgress sends.
GoProgressMsg(id, bytes, total) ==
  [type |-> "progress", id |-> id, bytesReceived |-> bytes, totalBytes |-> total,
   percent |-> GoPercent(bytes, total)]

\* Mutant of GoSendProgress: the minimum interval is 0.25 s.
GoSendProgressQuarter(job, now, bytesReceived, totalBytes) ==
  LET dt == now - job.lastTick
  IN  IF dt < 250 THEN [job |-> job, sent |-> << >>]
      ELSE LET dBytes == IF bytesReceived - job.lastBytes < 0 THEN 0
                         ELSE bytesReceived - job.lastBytes
               instSpeed == Rat(dBytes * 1000, dt)
               speedEMA == IF job.speedEMA = Zero THEN instSpeed
                           ELSE Ema(instSpeed, job.speedEMA)
               remaining == IF totalBytes - bytesReceived < 0 THEN 0
                            ELSE totalBytes - bytesReceived
               etaSec == IF totalBytes > 0 /\ speedEMA # Zero
                         THEN FloorDiv(remaining, speedEMA) ELSE 0
           IN  [job |-> [job EXCEPT !.speedEMA = speedEMA, !.lastBytes = bytesReceived,
                                    !.lastTick = now],
                sent |-> << GoProgressMsg(job.id, bytesReceived, totalBytes) @@
                            [speedBps |-> Floor(speedEMA), etaSec |-> etaSec, at |-> now] >>]

\* Job.sendProgress(bytesReceived, totalBytes) at time now (ms): the job
\* record after it and the events it has sent (none, or one).
GoSendProgress(job, now, bytesReceived, totalBytes) ==
  LET dt == now - job.lastTick
  IN  IF dt < 500 THEN [job |-> job, sent |-> << >>]
      ELSE LET dBytes == IF bytesReceived - job.lastBytes < 0 THEN 0
                         ELSE bytesReceived - job.lastBytes
               instSpeed == Rat(dBytes * 1000, dt)
               speedEMA == IF job.speedEMA = Zero THEN instSpeed
                           ELSE Ema(instSpeed, job.speedEMA)
               remaining == IF totalBytes - bytesReceived < 0 THEN 0
                            ELSE totalBytes - bytesReceived
               etaSec == IF totalBytes > 0 /\ speedEMA # Zero
                         THEN FloorDiv(remaining, speedEMA) ELSE 0
           IN  [job |-> [job EXCEPT !.speedEMA = speedEMA, !.lastBytes = bytesReceived,
                                    !.lastTick = now],
                sent |-> << GoProgressMsg(job.id, bytesReceived, totalBytes) @@
                            [speedBps |-> Floor(speedEMA), etaSec |-> etaSec, at |-> now] >>]

\* Writes a handler's resulting record back to the variables.
CommitSw(S) ==
  /\ jobs' = S.jobs
  /\ jobQueue' = S.jobQueue
  /\ activeJobs' = S.activeJobs
  /\ jobIdCounter' = S.jobIdCounter
  /\ DL' = S.DL
  /\ nativePort' = S.nativePort
  /\ timers' = S.timers
  /\ pendingCb' = S.pendingCb
  /\ downloads' = S.downloads
  /\ wKnown' = S.wKnown
  /\ wRuns' = S.wRuns
  /\ wCanceled' = S.wCanceled
  /\ wWritten' = S.wWritten
  /\ nativeApi' = nativeApi
  /\ limits' = limits
  /\ clock' = clock

Commit(S) == CommitSw(S) /\ UNCHANGED << dlBytes, workerVars, hostVars, ipcVars >>

\* The user makes a request, within the budget of disturbances.
Command ==
  /\ nCommands + nFaults < limits.disturbances
  /\ nCommands' = nCommands + 1
  /\ UNCHANGED << nFaults, cycles >>
  /\ onlyEnqueues' = FALSE

\* The environment's step injects a failure (within the budget), or none.
Fault(f) ==
  /\ f => nCommands + nFaults < limits.disturbances
  /\ nFaults' = IF f THEN nFaults + 1 ELSE nFaults
  /\ UNCHANGED nCommands
  /\ onlyEnqueues' = FALSE

HostIdle ==
  [pc |-> "idle", n |-> 0, i |-> 0, tmpDir |-> FALSE, bytes |-> 0, err |-> "",
   segs |-> {}, req |-> << >>, paths |-> << >>, concatIn |-> << >>,
   totalBytes |-> Null, speedBps |-> 0, etaSec |-> Null, lastUpdate |-> 0,
   lastBytesReceived |-> 0,
   manifest |-> << >>, parsed |-> FALSE, video |-> 0, audio |-> 0, tracks |-> {}, muxed |-> FALSE, renamed |-> FALSE]

\* The goroutines that call Send: main's loop and the runs of two jobs.
Senders == {"main", "run1", "run2"}

IpcInit ==
  /\ wire = << >>
  /\ readPos = 0
  /\ sender = [t \in Senders |-> [pc |-> "idle", msg |-> << >>, op |-> "", lock |-> ""]]
  /\ sendMu = ""
  /\ sentLog = << >>
  /\ received = << >>

HostInit ==
  /\ host = [j \in JobIds |-> HostIdle]
  /\ hostOut = << >>

\* The output paths of the download commands ("out", joined to the Downloads
\* directory): the file name of the job's URL, which two jobs may share.
OutPaths == 1..MaxPaths

\* What a file holds: nothing there, a file being written, a finished file.
NoFiles == [part |-> "none", converted |-> "none", final |-> "none"]

WorkerInitWith(lim) ==
  /\ wLimits = lim
  /\ msgType = ""
  /\ nOthers = 0
  /\ stopped = FALSE
  /\ probing = FALSE
  /\ mgrJobs = << >>
  /\ runs = << >>
  /\ files = [p \in OutPaths |-> NoFiles]
  /\ out = << >>
  /\ nCancels = 0

WorkerInit ==
  WorkerInitWith([starts |-> MaxStarts, cancels |-> MaxCancels, progress |-> MaxProgress,
                  others |-> 0, paths |-> 1])

SwInit(lim) ==
  /\ HostInit
  /\ IpcInit
  /\ limits = lim
  /\ jobs = << >>
  /\ jobQueue = << >>
  /\ activeJobs = {}
  /\ jobIdCounter = 0
  /\ clock = MinClock
  /\ DL = << >>
  /\ nativePort = "null"
  /\ timers = EmptyBag
  /\ pendingCb = [j \in JobIds |-> 0]
  /\ downloads = << >>
  /\ wKnown = {}
  /\ wRuns = [j \in JobIds |-> 0]
  /\ wCanceled = [j \in JobIds |-> 0]
  /\ wWritten = [j \in JobIds |-> 0]
  /\ dlBytes = << >>
  /\ nativeApi \in BOOLEAN
  /\ nCommands = 0
  /\ nFaults = 0
  /\ onlyEnqueues = TRUE
  /\ cycles = [j \in JobIds |-> 0]

InitWith(lim) == WorkerInit /\ SwInit(lim)

Init == InitWith([jobs |-> MaxJobs, disturbances |-> MaxDisturbances])

QueueInit == InitWith([jobs |-> MaxQueueJobs, disturbances |-> MaxQueueDisturbances])

\* VIDOWN_ENQUEUE / VIDOWN_START_DOWNLOAD
Enqueue(kind) ==
  /\ jobIdCounter < limits.jobs
  /\ Commit(EnqueueJob(Cur, kind))
  /\ UNCHANGED << nCommands, nFaults, onlyEnqueues, cycles >>

\* VIDOWN_PAUSE_JOB
Pause(j) ==
  /\ j \in 1..jobIdCounter
  /\ Command
  /\ Commit(PauseJob(Cur, j))

\* VIDOWN_RESUME_JOB
Resume(j) ==
  /\ j \in 1..jobIdCounter
  /\ Command
  /\ Commit(ResumeJob(Cur, j))

\* VIDOWN_CANCEL_JOB
Cancel(j) ==
  /\ j \in 1..jobIdCounter
  /\ Command
  /\ Commit(CancelJob(Cur, j))

\* The browser runs the callback of a chrome.downloads.download call.
DownloadStarts(j, ok) ==
  /\ pendingCb[j] > 0
  /\ Fault(~ok)
  /\ Commit(DownloadCallback(Cur, j, ok))
  /\ UNCHANGED cycles

\* A download ends in the browser, "complete" or "interrupted" (a download
\* cancelled with chrome.downloads.cancel ends "interrupted"), and
\* chrome.downloads.onChanged reports it.
DownloadEnds(id, st) ==
  /\ id \in DOMAIN downloads
  /\ \/ downloads[id] = "in_progress" /\ st \in {"complete", "interrupted"}
     \/ downloads[id] = "cancelled" /\ st = "interrupted"
  /\ Fault(downloads[id] = "in_progress" /\ st = "interrupted")
  /\ Commit(DownloadChanged([Cur EXCEPT !.downloads[id] = "finished"], id, st))
  /\ UNCHANGED cycles

\* Mutant of RetryTimer: the callback does not delete the job from activeJobs.
RetryTimerKeepsActive(t) ==
  /\ BagIn(t, timers)
  /\ Fault(FALSE)
  /\ Commit(ProcessQueue([Cur EXCEPT !.timers = @ (-) SetToBag({t}),
                                     !.jobQueue = << t.job >> \o @]))
  /\ cycles' = [cycles EXCEPT ![t.job] = @ + 1]

\* A setTimeout callback scheduled by handleJobError runs.
RetryTimer(t) ==
  /\ BagIn(t, timers)
  /\ Fault(FALSE)
  /\ Commit(RetryExpired([Cur EXCEPT !.timers = @ (-) SetToBag({t})], t.job))
  /\ cycles' = [cycles EXCEPT ![t.job] = @ + 1]

\* The worker emits an event of a run of job j (Manager.Start, Job.run) and
\* the port's onMessage listener handles it.
NativeEvent(j, type) ==
  /\ nativePort = "open"
  /\ wRuns[j] > 0
  /\ Fault(type = "error")
  /\ Commit(HandleNativeMessage(
              IF type \in {"done", "error"} THEN [Cur EXCEPT !.wRuns[j] = @ - 1] ELSE Cur,
              j, type))
  /\ UNCHANGED cycles

\* The worker's answer to a cancel command (Manager.Cancel) arrives.
NativeCanceled(j) ==
  /\ nativePort = "open"
  /\ wCanceled[j] > 0
  /\ Fault(FALSE)
  /\ Commit(HandleNativeMessage([Cur EXCEPT !.wCanceled[j] = @ - 1], j, "canceled"))
  /\ UNCHANGED cycles

\* The worker process exits or the pipe breaks: its jobs and unsent events
\* are gone.
NativePortDies ==
  /\ nativePort = "open"
  /\ Fault(TRUE)
  /\ Commit([Cur EXCEPT !.nativePort = "dead",
                        !.wKnown = {},
                        !.wRuns = [j \in JobIds |-> 0],
                        !.wCanceled = [j \in JobIds |-> 0]])
  /\ UNCHANGED cycles

\* The nativePort.onDisconnect listener
OnDisconnect ==
  /\ nativePort = "dead"
  /\ Fault(FALSE)
  /\ Commit([Cur EXCEPT !.nativePort = "null"])
  /\ UNCHANGED cycles

\* POPUP_OPENED: connects the native port when there is none.
PopupOpened ==
  /\ nativePort = "null"
  /\ Fault(FALSE)
  /\ Commit(ConnectNative(Cur))
  /\ UNCHANGED cycles

Next ==
  \/ \E kind \in JobKinds : Enqueue(kind)
  \/ \E j \in JobIds : Pause(j)
  \/ \E j \in JobIds : Resume(j)
  \/ \E j \in JobIds : Cancel(j)
  \/ \E j \in JobIds, ok \in BOOLEAN : DownloadStarts(j, ok)
  \/ \E id \in DOMAIN downloads, st \in {"complete", "interrupted"} : DownloadEnds(id, st)
  \/ \E t \in BagToSet(timers) : RetryTimer(t)
  \/ \E j \in JobIds, type \in {"job-started", "progress", "done", "error"} :
       NativeEvent(j, type)
  \/ \E j \in JobIds : NativeCanceled(j)
  \/ NativePortDies
  \/ OnDisconnect
  \/ PopupOpened

Spec == Init /\ [][Next]_vars

\* The browser runs every pending callback and timer, every download of the
\* browser and every run of the worker ends, and every event of the worker
\* and of the port is delivered.
Fairness ==
  /\ WF_vars(\E j \in JobIds, ok \in BOOLEAN : DownloadStarts(j, ok))
  /\ WF_vars(\E id \in DOMAIN downloads, st \in {"complete", "interrupted"} :
               DownloadEnds(id, st))
  /\ WF_vars(\E t \in BagToSet(timers) : RetryTimer(t))
  /\ WF_vars(\E j \in JobIds, type \in {"done", "error"} : NativeEvent(j, type))
  /\ WF_vars(\E j \in JobIds : NativeCanceled(j))
  /\ WF_vars(OnDisconnect)

FairSpec == Spec /\ Fairness

\* The same program with more jobs and a single disturbance: long pending lists.
QueueSpec == QueueInit /\ [][Next]_vars

\* Date.now() returns another value: later, or earlier when the system clock
\* is set back.
Tick ==
  /\ \E t \in MinClock..MaxClock : t # clock /\ clock' = t
  /\ UNCHANGED << jobs, jobQueue, activeJobs, jobIdCounter, DL, nativePort, timers,
                  pendingCb, downloads, wKnown, wRuns, wCanceled, wWritten, dlBytes,
                  nativeApi, nCommands, nFaults, onlyEnqueues, cycles, limits,
                  workerVars, hostVars, ipcVars >>

IdNext == Next \/ Tick

IdInit == InitWith([jobs |-> MaxIdJobs, disturbances |-> MaxIdDisturbances])

IdSpec == IdInit /\ [][IdNext]_vars

\* ------------------------------------------------------ the native worker
\* ipc.Send: the frame is written under sendMu, so the events of the main
\* loop and of the runs appear in the order of their Send calls.
Send(o, type, id) == Append(o, [type |-> type, id |-> id])

\* written is the total_size the run's current ffmpeg has reported; out is
\* job.Out; ffmpeg is whether the run's ffmpeg has opened its output file and
\* cmd.Wait has not returned yet.
NewRun(id, convert, p, total) ==
  [id |-> id, pc |-> "download", ctxDone |-> FALSE, convert |-> convert, progress |-> 0,
   written |-> 0, out |-> p, ffmpeg |-> FALSE,
   ExpTotal |-> total, speedEMA |-> Zero, lastBytes |-> 0, lastTick |-> clock]

\* Mutant of Start: the run is launched before job-started is sent.
StartRunFirst(id, convert) ==
  /\ ~stopped /\ ~probing
  /\ Len(runs) < wLimits.starts
  /\ msgType' = "download"
  /\ \E p \in 1..wLimits.paths : runs' = Append(runs, NewRun(id, convert, p, 0))
  /\ mgrJobs' = [k \in (DOMAIN mgrJobs) \cup {id} |->
                   IF k = id THEN Len(runs) + 1 ELSE mgrJobs[k]]
  /\ UNCHANGED << out, files, nCancels, wLimits, nOthers, stopped, probing, swVars,
                  hostVars, ipcVars >>

\* A "download" command: Manager.Start (under Manager.mu).  `convert` is
\* whether the command asks for a container other than "copy"; the command's
\* "out" is one of the paths of this behaviour, its expectedTotalBytes is
\* total.
StartWith(id, convert, total) ==
  /\ ~stopped /\ ~probing
  /\ Len(runs) < wLimits.starts
  /\ msgType' = "download"
  /\ \E p \in 1..wLimits.paths : runs' = Append(runs, NewRun(id, convert, p, total))
  /\ mgrJobs' = [k \in (DOMAIN mgrJobs) \cup {id} |->
                   IF k = id THEN Len(runs) + 1 ELSE mgrJobs[k]]
  /\ out' = Send(out, "job-started", id)
  /\ UNCHANGED << files, nCancels, wLimits, nOthers, stopped, probing, swVars,
                  hostVars, ipcVars >>

\* A "download" command without expectedTotalBytes (GetInt64 gives 0).
Start(id, convert) == StartWith(id, convert, 0)

\* A "cancel" command: Manager.Cancel (under Manager.mu).
ManagerCancel(id) ==
  /\ ~stopped /\ ~probing
  /\ nCancels < wLimits.cancels
  /\ msgType' = "cancel"
  /\ nCancels' = nCancels + 1
  /\ IF id \in DOMAIN mgrJobs
     THEN /\ runs' = [runs EXCEPT ![mgrJobs[id]].ctxDone = TRUE]
          /\ mgrJobs' = [k \in (DOMAIN mgrJobs) \ {id} |-> mgrJobs[k]]
          /\ out' = Send(out, "canceled", id)
     ELSE UNCHANGED << runs, mgrJobs, out >>
  /\ UNCHANGED << files, wLimits, nOthers, stopped, probing, swVars,
                  hostVars, ipcVars >>

\* The file the run's current ffmpeg writes: tmpOut, or convertedOut.
Target(r) == IF runs[r].pc = "convert" THEN "converted" ELSE "part"

\* Whether another run's ffmpeg has the same file open.
SharedTarget(r) ==
  \E q \in DOMAIN runs :
    /\ q # r
    /\ runs[q].ffmpeg
    /\ runs[q].out = runs[r].out
    /\ Target(q) = Target(r)

\* What the run's ffmpeg leaves at its output path when it exits with
\* success: the finished file; a file another ffmpeg is still writing; or
\* nothing, the file having been removed or renamed under it.
Written(r) ==
  IF runs[r].ffmpeg /\ files[runs[r].out][Target(r)] = "none" THEN "none"
  ELSE IF SharedTarget(r) THEN "partial"
  ELSE "whole"

\* ffmpeg (-y) opens its output file: the file is created, or truncated.
FfmpegOpens(r) ==
  /\ ~stopped
  /\ runs[r].pc \in {"download", "convert"}
  /\ ~runs[r].ffmpeg
  /\ ~runs[r].ctxDone
  /\ runs' = [runs EXCEPT ![r].ffmpeg = TRUE]
  /\ files' = [files EXCEPT ![runs[r].out][Target(r)] = "partial"]
  /\ UNCHANGED << mgrJobs, out, nCancels, wLimits, msgType, nOthers, stopped, probing, swVars,
                  hostVars, ipcVars >>

\* Job.run: the download's ffmpeg exits.  It is killed when the context is
\* cancelled, so it succeeds only when it is not.  On failure os.Remove(tmpOut).
RunDownloadEnds(r, ok) ==
  /\ ~stopped
  /\ runs[r].pc = "download"
  /\ ok => ~runs[r].ctxDone
  /\ IF ok
     THEN /\ runs' = [runs EXCEPT ![r].pc = IF runs[r].convert THEN "convert" ELSE "rename",
                                  ![r].written = IF runs[r].convert THEN 0 ELSE @,
                                  ![r].ffmpeg = FALSE]
          /\ files' = [files EXCEPT ![runs[r].out].part = Written(r)]
          /\ UNCHANGED out
     ELSE /\ runs' = [runs EXCEPT ![r].pc = "finished", ![r].ffmpeg = FALSE]
          /\ files' = [files EXCEPT ![runs[r].out].part = "none"]
          /\ out' = Send(out, "error", runs[r].id)
  /\ UNCHANGED << mgrJobs, nCancels, wLimits, msgType, nOthers, stopped, probing, swVars,
                  hostVars, ipcVars >>

\* Job.run: the conversion's ffmpeg exits (or cannot start, the context
\* being cancelled already, or fails for want of its input).  On success os.Remove(tmpOut) and tmpOut becomes
\* convertedOut; on failure both files are removed.
RunConvertEnds(r, ok) ==
  /\ ~stopped
  /\ runs[r].pc = "convert"
  /\ ok => ~runs[r].ctxDone /\ files[runs[r].out].part # "none"
  /\ IF ok
     THEN /\ runs' = [runs EXCEPT ![r].pc = "rename", ![r].ffmpeg = FALSE]
          /\ files' = [files EXCEPT ![runs[r].out].converted = Written(r),
                                    ![runs[r].out].part = "none"]
          /\ UNCHANGED out
     ELSE /\ runs' = [runs EXCEPT ![r].pc = "finished", ![r].ffmpeg = FALSE]
          /\ files' = [files EXCEPT ![runs[r].out].converted = "none",
                                    ![runs[r].out].part = "none"]
          /\ out' = Send(out, "error", runs[r].id)
  /\ UNCHANGED << mgrJobs, nCancels, wLimits, msgType, nOthers, stopped, probing, swVars,
                  hostVars, ipcVars >>

\* The file Job.run renames: tmpOut, which is convertedOut after a conversion.
TmpOut(r) == IF runs[r].convert THEN "converted" ELSE "part"

\* Job.run: os.Rename(tmpOut, finalOut), then "done"; when the rename fails
\* (it does when tmpOut is not there), os.Remove(tmpOut), then "error".
RunRename(r, ok) ==
  /\ ~stopped
  /\ runs[r].pc = "rename"
  /\ ok => files[runs[r].out][TmpOut(r)] # "none"
  /\ runs' = [runs EXCEPT ![r].pc = "finished"]
  /\ files' = [files EXCEPT ![runs[r].out] =
                 [@ EXCEPT ![TmpOut(r)] = "none",
                           !.final = IF ok THEN files[runs[r].out][TmpOut(r)] ELSE @]]
  /\ out' = Send(out, IF ok THEN "done" ELSE "error", runs[r].id)
  /\ UNCHANGED << mgrJobs, nCancels, wLimits, msgType, nOthers, stopped, probing, swVars,
                  hostVars, ipcVars >>

\* Job.sendProgress, called by the goroutine that parses ffmpeg's progress
\* blocks; RunFFmpeg does not wait for that goroutine, so the call can come
\* after cmd.Wait has returned.  The block reports d more bytes written; the
\* command's expectedTotalBytes is total.
RunProgress(r, d, total) ==
  /\ ~stopped
  /\ runs[r].progress < wLimits.progress
  /\ runs' = [runs EXCEPT ![r].progress = @ + 1, ![r].written = @ + d]
  /\ out' = Append(out, GoProgressMsg(runs[r].id, runs[r].written + d, total))
  /\ UNCHANGED << mgrJobs, files, nCancels, wLimits, msgType, nOthers, stopped, probing, swVars,
                  hostVars, ipcVars >>

\* RunFFmpeg's progress callback at the time of the clock: ffmpeg reports d
\* more bytes written and Job.sendProgress is called with them.
SendProgress(r, d) ==
  /\ ~stopped
  /\ runs[r].pc \in {"download", "convert"}
  /\ runs[r].progress < wLimits.progress
  /\ runs[r].written + d <= MaxRateBytes
  /\ LET job == runs[r]
         bytesReceived == job.written + d
         upd == GoSendProgress(job, clock, bytesReceived, job.ExpTotal)
     IN  /\ runs' = [runs EXCEPT ![r] = [upd.job EXCEPT !.written = bytesReceived,
                                                        !.progress = @ + Len(upd.sent)]]
         /\ out' = out \o upd.sent
  /\ UNCHANGED << mgrJobs, files, nCancels, wLimits, msgType, nOthers, stopped, probing, swVars,
                  hostVars, ipcVars >>

\* Time passes: the clock is ms later.
TimePasses(ms) ==
  /\ clock + ms <= MaxRateClock
  /\ clock' = clock + ms
  /\ UNCHANGED << jobs, jobQueue, activeJobs, jobIdCounter, DL, nativePort, timers,
                  pendingCb, downloads, wKnown, wRuns, wCanceled, wWritten, dlBytes,
                  nativeApi, nCommands, nFaults, onlyEnqueues, cycles, limits,
                  workerVars, hostVars, ipcVars >>

WorkerNext ==
  \/ \E id \in WorkerIds, convert \in BOOLEAN : Start(id, convert)
  \/ \E id \in WorkerIds : ManagerCancel(id)
  \/ \E r \in DOMAIN runs : FfmpegOpens(r)
  \/ \E r \in DOMAIN runs, ok \in BOOLEAN : RunDownloadEnds(r, ok)
  \/ \E r \in DOMAIN runs, ok \in BOOLEAN : RunConvertEnds(r, ok)
  \/ \E r \in DOMAIN runs, ok \in BOOLEAN : RunRename(r, ok)
  \/ \E r \in DOMAIN runs, d \in 0..1 : RunProgress(r, d, 0)

WorkerSpecInit == Init /\ nativeApi = TRUE

WorkerSpec == WorkerSpecInit /\ [][WorkerNext]_vars

\* main's switch for a command that is neither download nor cancel:
\* "shutdown" returns, "probe" calls handleProbe, which runs ffprobe and
\* waits for it, every other type takes the default branch.
OtherCommand(kind) ==
  /\ ~stopped /\ ~probing
  /\ nOthers < wLimits.others
  /\ nOthers' = nOthers + 1
  /\ msgType' = kind
  /\ stopped' = (kind = "shutdown")
  /\ probing' = (kind = "probe")
  /\ out' = IF kind \in {"shutdown", "probe"} THEN out
            ELSE Append(out, [type |-> "log", id |-> 0, level |-> "warn",
                              msg |-> "unknown_command", cmd |-> kind])
  /\ UNCHANGED << mgrJobs, runs, files, nCancels, wLimits, swVars, hostVars, ipcVars >>

\* handleProbe: ff.ProbeURL returns, with a result or an error; the reply is
\* sent and main goes back to ipc.ReadMsg.
ProbeEnds(ok) ==
  /\ ~stopped /\ probing
  /\ probing' = FALSE
  /\ out' = Append(out, IF ok THEN [type |-> "probe-result", id |-> 0]
                        ELSE [type |-> "error", id |-> 0, code |-> "probe_failed"])
  /\ UNCHANGED << mgrJobs, runs, files, nCancels, wLimits, msgType, nOthers, stopped,
                  swVars, hostVars, ipcVars >>

\* The command types the coordinator may send, and one that is none of them.
CommandKinds == {"hello", "probe", "shutdown", "ping"}

LoopNext ==
  \/ WorkerNext
  \/ \E kind \in CommandKinds : OtherCommand(kind)
  \/ \E ok \in BOOLEAN : ProbeEnds(ok)

\* main enters its loop; out holds the events sent after main's own hello.
LoopInit ==
  /\ WorkerInitWith([starts |-> MaxLoopStarts, cancels |-> MaxLoopCancels,
                     progress |-> MaxLoopProgress, others |-> MaxLoopOthers, paths |-> 1])
  /\ SwInit([jobs |-> MaxJobs, disturbances |-> MaxDisturbances])
  /\ nativeApi = TRUE

LoopSpec == LoopInit /\ [][LoopNext]_vars

\* One job of the worker, with more progress events.
ProgressInit ==
  /\ WorkerInitWith([starts |-> MaxProgressStarts, cancels |-> MaxProgressCancels,
                     progress |-> MaxProgressEvents, others |-> 0, paths |-> 1])
  /\ SwInit([jobs |-> MaxJobs, disturbances |-> MaxDisturbances])
  /\ nativeApi = TRUE

ProgressSpec == ProgressInit /\ [][WorkerNext]_vars

\* Two jobs of the worker whose commands may name the same output path.
FilesInit ==
  /\ WorkerInitWith([starts |-> MaxFilesStarts, cancels |-> MaxFilesCancels,
                     progress |-> MaxFilesProgress, others |-> 0, paths |-> MaxPaths])
  /\ SwInit([jobs |-> MaxJobs, disturbances |-> MaxDisturbances])
  /\ nativeApi = TRUE

FilesSpec == FilesInit /\ [][WorkerNext]_vars

\* -------------------------------------------------------------- framing
\* Bytes are numbers 0..255; a string is the sequence of its bytes.
\* binary.Write(os.Stdout, binary.LittleEndian, uint32(n))
\* The four bytes of uint32(n), for the lengths 0 <= n < 2^31 of the model.
LE32(n) ==
  << n % 256, (n \div 256) % 256, (n \div 65536) % 256, (n \div 16777216) % 256 >>

\* binary.Read(r, binary.LittleEndian, &length)
FromLE32(b) == b[1] + 256 * b[2] + 65536 * b[3] + 16777216 * b[4]

\* The keys of the messages, in the order json.Marshal writes a map's keys.
KeyOrder == << "id", "msg", "type" >>

KeyBytes == [id |-> << 105, 100 >>, msg |-> << 109, 115, 103 >>,
             type |-> << 116, 121, 112, 101 >>]

\* json.Marshal of a string: quoted, with the quote and the backslash escaped.
HexDigit(n) == IF n < 10 THEN 48 + n ELSE 87 + n

HexVal(c) ==
  IF c \in 48..57 THEN c - 48
  ELSE IF c \in 97..102 THEN c - 87
  ELSE IF c \in 65..70 THEN c - 55
  ELSE -1

\* The six bytes \uXXXX for the code point cp < 65536.
U4(cp) ==
  << 92, 117, HexDigit(cp \div 4096), HexDigit((cp \div 256) % 16),
     HexDigit((cp \div 16) % 16), HexDigit(cp % 16) >>

\* The UTF-8 bytes of the code point cp.
Utf8(cp) ==
  IF cp < 128 THEN << cp >>
  ELSE IF cp < 2048 THEN << 192 + (cp \div 64), 128 + (cp % 64) >>
  ELSE IF cp < 65536
       THEN << 224 + (cp \div 4096), 128 + ((cp \div 64) % 64), 128 + (cp % 64) >>
  ELSE << 240 + (cp \div 262144), 128 + ((cp \div 4096) % 64),
          128 + ((cp \div 64) % 64), 128 + (cp % 64) >>

\* utf8.DecodeRune at s[k]: the length of the valid sequence there, 0 if the
\* byte starts none.
RuneLen(s, k) ==
  LET c == s[k]
      Cont(j) == j <= Len(s) /\ s[j] \in 128..191
  IN  IF c < 128 THEN 1
      ELSE IF c \in 194..223 /\ Cont(k + 1) THEN 2
      ELSE IF /\ c \in 224..239 /\ Cont(k + 1) /\ Cont(k + 2)
              /\ (c = 224 => s[k + 1] >= 160)
              /\ (c = 237 => s[k + 1] <= 159) THEN 3
      ELSE IF /\ c \in 240..244 /\ Cont(k + 1) /\ Cont(k + 2) /\ Cont(k + 3)
              /\ (c = 240 => s[k + 1] >= 144)
              /\ (c = 244 => s[k + 1] <= 143) THEN 4
      ELSE 0

\* The bytes json.Marshal does not copy as they are, were they to start a
\* rune: control bytes, the quote, the backslash, <, > and &, and every byte
\* above 127.
Unsafe == (0..31) \cup {34, 92, 38, 60, 62} \cup (128..255)

First(ks) == CHOOSE k \in ks : \A x \in ks : k <= x

\* What json.Marshal writes for the rune at str[k], and the bytes it stands for.
EscapeAt(str, k) ==
  LET c == str[k]
      n == RuneLen(str, k)
  IN  IF c \in {34, 92} THEN [out |-> << 92, c >>, size |-> 1]
      ELSE IF c = 10 THEN [out |-> << 92, 110 >>, size |-> 1]
      ELSE IF c = 13 THEN [out |-> << 92, 114 >>, size |-> 1]
      ELSE IF c = 9 THEN [out |-> << 92, 116 >>, size |-> 1]
      ELSE IF c < 128 THEN [out |-> U4(c), size |-> 1]
      ELSE IF n = 0 THEN [out |-> U4(65533), size |-> 1]
      ELSE IF n = 3 /\ SubSeq(str, k, k + 2) \in {<< 226, 128, 168 >>, << 226, 128, 169 >>}
           THEN [out |-> U4(8192 + 40 + (str[k + 2] - 168)), size |-> 3]
      ELSE [out |-> SubSeq(str, k, k + n - 1), size |-> n]

\* The run of plain bytes up to the next unsafe one is copied, then the rune
\* there is written as EscapeAt says.
RECURSIVE Escape(_)
Escape(str) ==
  LET ks == {k \in DOMAIN str : str[k] \in Unsafe}
  IN  IF ks = {} THEN str
      ELSE LET k == First(ks)
               e == EscapeAt(str, k)
           IN  SubSeq(str, 1, k - 1) \o e.out
               \o Escape(SubSeq(str, k + e.size, Len(str)))

Quote(str) == << 34 >> \o Escape(str) \o << 34 >>

\* The "key":"value" pairs of m for the keys KeyOrder[k..], comma-separated.
RECURSIVE MarshalPairs(_, _, _)
MarshalPairs(m, k, first) ==
  IF k > Len(KeyOrder) THEN << >>
  ELSE IF KeyOrder[k] \notin DOMAIN m THEN MarshalPairs(m, k + 1, first)
  ELSE (IF first THEN << >> ELSE << 44 >>)
       \o Quote(KeyBytes[KeyOrder[k]]) \o << 58 >> \o Quote(m[KeyOrder[k]])
       \o MarshalPairs(m, k + 1, FALSE)

\* json.Marshal(m) for a map of strings.
Marshal(m) == << 123 >> \o MarshalPairs(m, 1, TRUE) \o << 125 >>

\* The frame Send writes for m: the length prefix, then the payload.
Frame(m) == LE32(Len(Marshal(m))) \o Marshal(m)

Invalid == [ok |-> FALSE, msg |-> << >>]

\* The four hex digits at b[i..i+3] as a number, -1 if they are not there.
Hex4(b, i) ==
  IF i + 3 > Len(b) \/ \E j \in i..(i + 3) : HexVal(b[j]) < 0 THEN -1
  ELSE 4096 * HexVal(b[i]) + 256 * HexVal(b[i + 1]) + 16 * HexVal(b[i + 2])
       + HexVal(b[i + 3])

\* The escape whose backslash is at b[k]: the bytes it stands for and its
\* length, 0 if it is malformed.
UnescapeAt(b, k) ==
  LET c == IF k + 1 > Len(b) THEN -1 ELSE b[k + 1]
      hi == Hex4(b, k + 2)
      lo == IF k + 7 <= Len(b) /\ b[k + 6] = 92 /\ b[k + 7] = 117
            THEN Hex4(b, k + 8) ELSE -1
  IN  IF c \in {34, 92, 47} THEN [val |-> << c >>, size |-> 2]
      ELSE IF c = 98 THEN [val |-> << 8 >>, size |-> 2]
      ELSE IF c = 102 THEN [val |-> << 12 >>, size |-> 2]
      ELSE IF c = 110 THEN [val |-> << 10 >>, size |-> 2]
      ELSE IF c = 114 THEN [val |-> << 13 >>, size |-> 2]
      ELSE IF c = 116 THEN [val |-> << 9 >>, size |-> 2]
      ELSE IF c # 117 \/ hi < 0 THEN [val |-> << >>, size |-> 0]
      ELSE IF hi \in 55296..56319 /\ lo \in 56320..57343
           THEN [val |-> Utf8(65536 + 1024 * (hi - 55296) + (lo - 56320)), size |-> 12]
      ELSE IF hi \in 55296..57343 THEN [val |-> Utf8(65533), size |-> 6]
      ELSE [val |-> Utf8(hi), size |-> 6]

\* A JSON string is scanned from b[i], the byte after its opening quote: runs
\* of plain bytes are copied, escapes are decoded, and a byte above 127 that
\* starts no rune becomes U+FFFD.
RECURSIVE ParseString(_, _, _)
ParseString(b, i, acc) ==
  LET ks == {k \in i..Len(b) : b[k] \in (0..31) \cup {34, 92} \cup (128..255)}
      bad == [ok |-> FALSE, val |-> << >>, next |-> i]
  IN  IF ks = {} THEN bad
      ELSE LET k == First(ks)
               run == acc \o SubSeq(b, i, k - 1)
               n == RuneLen(b, k)
               e == UnescapeAt(b, k)
           IN  IF b[k] = 34 THEN [ok |-> TRUE, val |-> run, next |-> k + 1]
               ELSE IF b[k] < 32 THEN bad
               ELSE IF b[k] = 92
                    THEN IF e.size = 0 THEN bad
                         ELSE ParseString(b, k + e.size, run \o e.val)
               ELSE IF n = 0 THEN ParseString(b, k + 1, run \o Utf8(65533))
               ELSE ParseString(b, k + n, run \o SubSeq(b, k, k + n - 1))

\* The pairs of a JSON object are scanned from b[i]; m holds those read.
RECURSIVE ParsePairs(_, _, _)
ParsePairs(b, i, m) ==
  IF i > Len(b) \/ b[i] # 34 THEN Invalid
  ELSE LET k == ParseString(b, i + 1, << >>)
       IN  IF ~k.ok \/ k.next + 1 > Len(b) \/ b[k.next] # 58 \/ b[k.next + 1] # 34
              \/ ~\E key \in DOMAIN KeyBytes : KeyBytes[key] = k.val
           THEN Invalid
           ELSE LET v == ParseString(b, k.next + 2, << >>)
                    key == CHOOSE x \in DOMAIN KeyBytes : KeyBytes[x] = k.val
                    m2 == [x \in (DOMAIN m) \cup {key} |-> IF x = key THEN v.val ELSE m[x]]
                IN  IF ~v.ok \/ v.next > Len(b) THEN Invalid
                    ELSE IF b[v.next] = 44 THEN ParsePairs(b, v.next + 1, m2)
                    ELSE IF b[v.next] = 125 /\ v.next = Len(b) THEN [ok |-> TRUE, msg |-> m2]
                    ELSE Invalid

\* json.Unmarshal(buf, &m)
Unmarshal(b) ==
  IF Len(b) < 2 \/ b[1] # 123 THEN Invalid
  ELSE IF b = << 123, 125 >> THEN [ok |-> TRUE, msg |-> << >>]
  ELSE ParsePairs(b, 2, << >>)

\* ReadMsg on the bytes s: the message (or the error) and the bytes consumed.
ReadMsg(s) ==
  IF Len(s) < 4 THEN [ok |-> FALSE, msg |-> << >>, used |-> Len(s)]
  ELSE LET n == FromLE32(s)
       IN  IF Len(s) < 4 + n THEN [ok |-> FALSE, msg |-> << >>, used |-> Len(s)]
           ELSE LET r == Unmarshal(SubSeq(s, 5, 4 + n))
                IN  [ok |-> r.ok, msg |-> r.msg, used |-> 4 + n]

LongString == [i \in 1..LongLen |-> 97]

\* The messages sent, maps of strings: the empty map; plain strings; strings
\* holding a quote, a backslash, a line feed, a "<" and a two-byte rune; a
\* string holding a byte that is not UTF-8; a payload longer than 255 bytes.
Messages ==
  { << >>,
    [type |-> << 97 >>],
    [id |-> << 34 >>, type |-> << 92, 97 >>],
    [id |-> << 98 >>, msg |-> << 97, 34, 92 >>, type |-> << >>],
    [msg |-> << 60, 10, 195, 169 >>],
    [msg |-> << 97, 255 >>],
    [msg |-> LongString] }

\* A goroutine calls Send(m) and waits at sendMu.Lock().
SendCall(t, m) ==
  /\ sender[t].pc = "idle"
  /\ Len(sentLog) + Cardinality({u \in Senders : sender[u].pc # "idle"}) < MaxSends
  /\ sender' = [sender EXCEPT ![t].pc = "waiting", ![t].msg = m]
  /\ UNCHANGED << wire, readPos, sendMu, sentLog, received, swVars, workerVars, hostVars >>

\* Send without the mutex: the call goes on whoever else is writing.
SendLockUnguarded(t) ==
  /\ sender[t].pc = "waiting"
  /\ sendMu' = t
  /\ sender' = [sender EXCEPT ![t].pc = "locked"]
  /\ UNCHANGED << wire, readPos, sentLog, received, swVars, workerVars, hostVars >>

\* Send: sendMu.Lock() returns, then json.Marshal.
SendLock(t) ==
  /\ sender[t].pc = "waiting"
  /\ sendMu = ""
  /\ sendMu' = t
  /\ sender' = [sender EXCEPT ![t].pc = "locked"]
  /\ UNCHANGED << wire, readPos, sentLog, received, swVars, workerVars, hostVars >>

\* Send taking the manager's mutex, under sendMu, before it writes.
SendPrefixLocksManager(t) ==
  /\ sender[t].pc = "locked"
  /\ \A u \in Senders : ~(sender[u].lock = "m.mu" /\ sender[u].pc \notin {"idle", "lockWait"})
  /\ wire' = wire \o LE32(Len(Marshal(sender[t].msg)))
  /\ sender' = [sender EXCEPT ![t].pc = "prefix"]
  /\ UNCHANGED << readPos, sendMu, sentLog, received, swVars, workerVars, hostVars >>

\* Send: the length prefix is written.
SendPrefix(t) ==
  /\ sender[t].pc = "locked"
  /\ wire' = wire \o LE32(Len(Marshal(sender[t].msg)))
  /\ sender' = [sender EXCEPT ![t].pc = "prefix"]
  /\ UNCHANGED << readPos, sendMu, sentLog, received, swVars, workerVars, hostVars >>

\* Send: the payload is written and the deferred sendMu.Unlock() runs; a
\* caller that took a mutex of its own is back in its function.
SendPayload(t) ==
  /\ sender[t].pc = "prefix"
  /\ wire' = wire \o Marshal(sender[t].msg)
  /\ sentLog' = Append(sentLog, sender[t].msg)
  /\ sender' = [sender EXCEPT ![t].pc = IF sender[t].lock = "" THEN "idle" ELSE "returned",
                               ![t].msg = << >>]
  /\ sendMu' = IF sendMu = t THEN "" ELSE sendMu
  /\ UNCHANGED << readPos, received, swVars, workerVars, hostVars >>

\* ReadMsg returns once the prefix and the bytes it announces are there.
FrameRead ==
  LET s == SubSeq(wire, readPos + 1, Len(wire))
  IN  /\ Len(s) >= 4 /\ Len(s) >= 4 + FromLE32(s)
      /\ received' = Append(received, [ok |-> ReadMsg(s).ok, msg |-> ReadMsg(s).msg])
      /\ readPos' = readPos + ReadMsg(s).used
      /\ UNCHANGED << wire, sender, sendMu, sentLog, swVars, workerVars, hostVars >>

FrameNext ==
  \/ \E t \in Senders, m \in Messages : SendCall(t, m)
  \/ \E t \in Senders : SendLock(t)
  \/ \E t \in Senders : SendPrefix(t)
  \/ \E t \in Senders : SendPayload(t)
  \/ FrameRead

FrameInit == Init /\ nativeApi = TRUE

FrameSpec == FrameInit /\ [][FrameNext]_vars

\* ------------------------------------------------------ the worker's locks
\* The mutexes taken before ipc.Send: the manager's, and the one of each Job.
JobLocks == {"job1.mu", "job2.mu"}

\* A goroutine holds the mutex once its Lock() has returned.
Holds(t, l) == sender[t].lock = l /\ sender[t].pc \notin {"idle", "lockWait"}

\* The main loop calls Start or Cancel and waits at m.mu.Lock(); the
\* goroutine of a job calls sendProgress and waits at job.mu.Lock().
LockCall(t, op, l) ==
  /\ sender[t].pc = "idle"
  /\ Len(sentLog) + Cardinality({u \in Senders : sender[u].pc # "idle"}) < MaxSends
  /\ \/ t = "main" /\ op \in {"Start", "Cancel"} /\ l = "m.mu"
     \/ t # "main" /\ op = "sendProgress" /\ l \in JobLocks
  /\ sender' = [sender EXCEPT ![t].pc = "lockWait", ![t].op = op, ![t].lock = l]
  /\ UNCHANGED << wire, readPos, sendMu, sentLog, received, swVars, workerVars, hostVars >>

\* m.mu.Lock() or job.mu.Lock() returns.
LockAcquire(t) ==
  /\ sender[t].pc = "lockWait"
  /\ \A u \in Senders : ~Holds(u, sender[t].lock)
  /\ sender' = [sender EXCEPT ![t].pc = "held"]
  /\ UNCHANGED << wire, readPos, sendMu, sentLog, received, swVars, workerVars, hostVars >>

\* Start, Cancel of a job of the map and sendProgress past its half second
\* call ipc.Send with their mutex held.
OpSend(t, m) ==
  /\ sender[t].pc = "held"
  /\ sender' = [sender EXCEPT ![t].pc = "waiting", ![t].msg = m]
  /\ UNCHANGED << wire, readPos, sendMu, sentLog, received, swVars, workerVars, hostVars >>

\* Cancel of an id the map does not hold, and sendProgress within half a
\* second of the last event, return without sending.
OpSkip(t) ==
  /\ sender[t].pc = "held"
  /\ sender[t].op # "Start"
  /\ sender' = [sender EXCEPT ![t].pc = "returned"]
  /\ UNCHANGED << wire, readPos, sendMu, sentLog, received, swVars, workerVars, hostVars >>

\* The deferred m.mu.Unlock() or job.mu.Unlock() runs.
Unlock(t) ==
  /\ sender[t].pc = "returned"
  /\ sender' = [sender EXCEPT ![t].pc = "idle", ![t].op = "", ![t].lock = ""]
  /\ UNCHANGED << wire, readPos, sendMu, sentLog, received, swVars, workerVars, hostVars >>

\* The events sent under a mutex: "job-started" or "canceled", and "progress".
LockMessages == { [type |-> << 97 >>], [id |-> << 34 >>, type |-> << 92, 97 >>] }

\* The steps of one goroutine that is in a call.
ThreadStep(t) ==
  \/ LockAcquire(t)
  \/ \E m \in LockMessages : OpSend(t, m)
  \/ OpSkip(t)
  \/ Unlock(t)
  \/ SendLock(t)
  \/ SendPrefix(t)
  \/ SendPayload(t)

LockNext ==
  \/ \E t \in Senders, op \in {"Start", "Cancel", "sendProgress"}, l \in {"m.mu"} \cup JobLocks :
       LockCall(t, op, l)
  \/ \E t \in Senders : LockAcquire(t)
  \/ \E t \in Senders, m \in LockMessages : OpSend(t, m)
  \/ \E t \in Senders : OpSkip(t)
  \/ \E t \in Senders : Unlock(t)
  \/ \E t \in Senders, m \in LockMessages : SendCall(t, m)
  \/ \E t \in Senders : SendLock(t)
  \/ \E t \in Senders : SendPrefix(t)
  \/ \E t \in Senders : SendPayload(t)

LockSpec == FrameInit /\ [][LockNext]_vars

\* ------------------------------------------------- byte counts and percent
\* The items enqueued with or without a size.
SizedKinds ==
  { [mode |-> m, httpUrl |-> TRUE, size |-> z] : m \in {"http", "hls"}, z \in {0, MaxBytes} }

\* The browser receives one more byte of download id and reports it.
DownloadBytes(id, total) ==
  /\ id \in DOMAIN downloads /\ downloads[id] = "in_progress"
  /\ Field(dlBytes, id, 0) < MaxBytes
  /\ LET b == Field(dlBytes, id, 0) + 1
     IN  /\ dlBytes' = [k \in (DOMAIN dlBytes) \cup {id} |-> IF k = id THEN b ELSE dlBytes[k]]
         /\ CommitSw(DownloadProgress(Cur, id, b, total))
  /\ UNCHANGED << workerVars, hostVars, ipcVars, nCommands, nFaults, onlyEnqueues, cycles >>

\* The latest run of job j has written one more byte and its progress event
\* (expectedTotalBytes being job.size || 0) is handled by the queue manager.
NativeProgress(j) ==
  /\ nativePort = "open"
  /\ wRuns[j] > 0
  /\ wWritten[j] < MaxBytes
  /\ LET b == wWritten[j] + 1
         total == IF jobs[j].size = Null THEN 0 ELSE jobs[j].size
     IN  CommitSw(HandleNativeMsg([Cur EXCEPT !.wWritten[j] = b], GoProgressMsg(j, b, total)))
  /\ UNCHANGED << dlBytes, workerVars, hostVars, ipcVars, nCommands, nFaults, onlyEnqueues, cycles >>

BytesNext ==
  \/ \E kind \in SizedKinds : Enqueue(kind)
  \/ \E j \in JobIds, ok \in BOOLEAN : DownloadStarts(j, ok)
  \/ \E id \in DOMAIN downloads, total \in {0, MaxBytes} : DownloadBytes(id, total)
  \/ \E id \in DOMAIN downloads, st \in {"complete", "interrupted"} : DownloadEnds(id, st)
  \/ \E t \in BagToSet(timers) : RetryTimer(t)
  \/ \E j \in JobIds : NativeProgress(j)
  \/ \E j \in JobIds, type \in {"job-started", "done", "error"} : NativeEvent(j, type)

BytesInit ==
  InitWith([jobs |-> MaxBytesJobs, disturbances |-> MaxBytesDisturbances]) /\ nativeApi = TRUE

BytesSpec == BytesInit /\ [][BytesNext]_vars

\* ---------------------------------------------------------- the node host
\* sendMessage: the frame is written to stdout.
SendMessage(o, msg) == Append(o, msg)

\* handleDownload's catch: the error is reported and the job forgotten.
HostFail(j, text) ==
  /\ host' = [host EXCEPT ![j].pc = "failed", ![j].err = text]
  /\ hostOut' = SendMessage(hostOut, [event |-> "error", id |-> j, error |-> text])

\* updateProgress(job, {bytesReceived, totalBytes}) at time now (ms): the job
\* object after it and the events it has sent (none, or one).
UpdateProgress(job, now, bytesReceived, totalBytes) ==
  LET job1 == [job EXCEPT !.bytes = bytesReceived,
                          !.totalBytes = IF totalBytes # Null /\ totalBytes # 0
                                         THEN totalBytes ELSE @]
      dt == now - job.lastUpdate
  IN  IF dt > 500
      THEN LET dBytes == bytesReceived - job.lastBytesReceived
               speedBps == (dBytes * 1000) \div dt
               remaining == job1.totalBytes - bytesReceived
               etaSec == IF job1.totalBytes # Null /\ job1.totalBytes # 0 /\ speedBps > 0
                         THEN (remaining + speedBps - 1) \div speedBps
                         ELSE job.etaSec
               job2 == [job1 EXCEPT !.speedBps = speedBps, !.etaSec = etaSec,
                                    !.lastBytesReceived = bytesReceived,
                                    !.lastUpdate = now]
           IN  [job |-> job2,
                sent |-> << [event |-> "progress", id |-> job.id,
                             bytesReceived |-> bytesReceived,
                             totalBytes |-> job2.totalBytes, speedBps |-> speedBps,
                             etaSec |-> etaSec, at |-> now] >>]
      ELSE [job |-> job1, sent |-> << >>]

\* handleDownload for a command of mode "http" and id j: the job object is
\* made, downloadHTTP sends the request and the response arrives with a
\* content-length of total (Null: none).
HostHttp(j, total) ==
  /\ limits.side = "node"
  /\ host[j].pc = "idle"
  /\ host' = [host EXCEPT ![j].pc = "http", ![j].lastUpdate = clock, ![j].n = total]
  /\ UNCHANGED << hostOut, swVars, workerVars, ipcVars >>

\* downloadHTTP: a chunk of d bytes arrives and onProgress calls
\* updateProgress.
HostChunk(j, d) ==
  /\ host[j].pc = "http"
  /\ host[j].bytes + d <= MaxRateBytes
  /\ LET upd == UpdateProgress(host[j] @@ [id |-> j], clock, host[j].bytes + d, host[j].n)
     IN  /\ host' = [host EXCEPT ![j] = [k \in DOMAIN host[j] |-> upd.job[k]]]
         /\ hostOut' = hostOut \o upd.sent
  /\ UNCHANGED << swVars, workerVars, ipcVars >>

\* The host's main loop hands a download command for job j to handleDownload,
\* which calls downloadHLS or downloadDASH: the manifest is being fetched.
HostDownload(j) ==
  /\ j \in DOMAIN jobs /\ jobs[j].mode \in {"hls", "dash"} /\ wRuns[j] > 0
  /\ host[j].pc = "idle"
  /\ host' = [host EXCEPT ![j].pc = IF jobs[j].mode = "hls" THEN "master" ELSE "mpd"]
  /\ UNCHANGED << hostOut, swVars, workerVars, ipcVars >>

\* downloadHLS: fetchText of the master playlist resolves or rejects.
HlsFetchMaster(j, ok) ==
  /\ host[j].pc = "master"
  /\ IF ok THEN host' = [host EXCEPT ![j].pc = "media"] /\ UNCHANGED hostOut
     ELSE HostFail(j, "HTTP")
  /\ UNCHANGED << swVars, workerVars, ipcVars >>

\* downloadHLS: the media playlist arrives with n segments; with none it
\* throws, otherwise the temporary directory is made.
HlsFetchMedia(j, ok, n) ==
  /\ host[j].pc = "media"
  /\ IF ~ok THEN HostFail(j, "HTTP")
     ELSE IF n = 0 THEN HostFail(j, "No segments found in HLS stream")
     ELSE /\ host' = [host EXCEPT ![j].pc = "segment", ![j].n = n, ![j].tmpDir = TRUE]
          /\ UNCHANGED hostOut
  /\ UNCHANGED << swVars, workerVars, ipcVars >>

\* Mutant of HlsRequest: the segments are requested without waiting, in any order.
HlsRequestAny(j) ==
  /\ host[j].pc \in {"segment", "fetching"}
  /\ \E k \in 0..(host[j].n - 1) :
       /\ \A x \in 1..Len(host[j].req) : host[j].req[x] # k
       /\ host' = [host EXCEPT ![j].pc = "fetching", ![j].i = k,
                               ![j].req = Append(@, k), ![j].segs = @ \cup {k}]
  /\ UNCHANGED << hostOut, swVars, workerVars, ipcVars >>

\* downloadHLS, the loop at index i: downloadSegment opens the file
\* segment-<i>.ts and sends the request.
HlsRequest(j) ==
  /\ host[j].pc = "segment"
  /\ host' = [host EXCEPT ![j].pc = "fetching",
                          ![j].req = Append(@, host[j].i),
                          ![j].segs = @ \cup {host[j].i}]
  /\ UNCHANGED << hostOut, swVars, workerVars, ipcVars >>

\* downloadHLS: the segment requested is written (or its fetch fails);
\* onProgress calls updateProgress, which sends a progress event when 0.5 s
\* have passed (tick); the path is pushed on segmentPaths.
HlsSegment(j, ok, tick) ==
  /\ host[j].pc = "fetching"
  /\ IF ~ok THEN HostFail(j, "HTTP")
     ELSE /\ host' = [host EXCEPT ![j].i = @ + 1, ![j].bytes = @ + 1,
                                  ![j].paths = Append(@, host[j].i),
                                  ![j].pc = IF Len(host[j].paths) + 1 = host[j].n
                                            THEN "concat" ELSE "segment"]
          /\ hostOut' = IF tick
                        THEN SendMessage(hostOut, [event |-> "progress", id |-> j,
                                                   bytesReceived |-> host[j].bytes + 1,
                                                   totalBytes |-> Null])
                        ELSE hostOut
  /\ UNCHANGED << swVars, workerVars, ipcVars >>

\* downloadHLS: concatenateSegments(segmentPaths) runs ffmpeg; on success
\* the segments and the directory are removed and handleDownload goes on to
\* the conversion.
HlsConcat(j, ok) ==
  /\ host[j].pc = "concat"
  /\ IF ok
     THEN /\ host' = [host EXCEPT ![j].pc = "convert", ![j].concatIn = host[j].paths,
                                  ![j].segs = @ \ {host[j].paths[x] : x \in 1..Len(host[j].paths)},
                                  ![j].tmpDir = FALSE]
          /\ UNCHANGED hostOut
     ELSE /\ host' = [host EXCEPT ![j].pc = "failed", ![j].err = "ffmpeg exited",
                                  ![j].concatIn = host[j].paths]
          /\ hostOut' = SendMessage(hostOut, [event |-> "error", id |-> j,
                                              error |-> "ffmpeg exited"])
  /\ UNCHANGED << swVars, workerVars, ipcVars >>

\* manifest.playlists: a sequence of [codecs, bandwidth], codecs the prefix of
\* the CODECS attribute ("" when the attribute is missing) and bandwidth the
\* BANDWIDTH attribute (0 when it is missing: BANDWIDTH || 0).
VideoCodecs == {"avc", "vp09"}

AudioCodecs == {"mp4a", "opus"}

Bandwidths == 0..MaxBandwidth

Playlists == [codecs : VideoCodecs \cup AudioCodecs, bandwidth : Bandwidths]

RECURSIVE SeqsUpTo(_, _)
SeqsUpTo(S, n) ==
  IF n = 0 THEN { << >> }
  ELSE LET shorter == SeqsUpTo(S, n - 1)
       IN  shorter \cup { Append(q, x) : q \in { r \in shorter : Len(r) = n - 1 }, x \in S }

Manifests == SeqsUpTo(Playlists, MaxPlaylists)

\* The manifests of the download jobs: at most one video and one audio set.
DashManifests ==
  { m \in SeqsUpTo([codecs : {"avc", "vp09", "mp4a"}, bandwidth : {1}], 2) :
      Len(m) = 2 => m[1].codecs # "mp4a" /\ m[2].codecs = "mp4a" }

\* selectBestVideo / selectBestAudio find a set only by these CODECS prefixes.
SelectsVideo == {"avc", "hvc"}

SelectsAudio == {"mp4a", "opus"}

\* Array.prototype.filter: the indices of the playlists that pass, in order.
RECURSIVE Filter(_, _, _)
Filter(m, prefixes, k) ==
  IF k > Len(m) THEN << >>
  ELSE IF m[k].codecs \in prefixes THEN << k >> \o Filter(m, prefixes, k + 1)
  ELSE Filter(m, prefixes, k + 1)

\* Array.prototype.sort with (a, b) => b.BANDWIDTH - a.BANDWIDTH: descending
\* and stable, so equal bandwidths keep the manifest's order.
RECURSIVE InsertByBandwidth(_, _, _)
InsertByBandwidth(m, sorted, k) ==
  IF sorted = << >> THEN << k >>
  ELSE IF m[Head(sorted)].bandwidth >= m[k].bandwidth
       THEN << Head(sorted) >> \o InsertByBandwidth(m, Tail(sorted), k)
       ELSE << k >> \o sorted

RECURSIVE SortByBandwidth(_, _)
SortByBandwidth(m, ks) ==
  IF ks = << >> THEN << >>
  ELSE InsertByBandwidth(m, SortByBandwidth(m, SubSeq(ks, 1, Len(ks) - 1)), ks[Len(ks)])

\* selectBestVideo: the index in manifest.playlists of the set it returns,
\* 0 for null.
SelectBestVideo(m) ==
  LET videoSets == Filter(m, SelectsVideo, 1)
  IN  IF videoSets = << >> THEN 0 ELSE Head(SortByBandwidth(m, videoSets))

\* selectBestAudio: likewise.
SelectBestAudio(m) ==
  LET audioSets == Filter(m, SelectsAudio, 1)
  IN  IF audioSets = << >> THEN 0 ELSE Head(audioSets)

\* downloadDASH: the manifest arrives (or not); the sets are selected;
\* without a video set it throws, otherwise the temporary directory is made.
DashFetchMpd(j, ok, m) ==
  /\ host[j].pc = "mpd"
  /\ IF ~ok THEN HostFail(j, "HTTP")
     ELSE LET video == SelectBestVideo(m)
              audio == SelectBestAudio(m)
          IN  IF video = 0
              THEN /\ host' = [host EXCEPT ![j].pc = "failed", ![j].manifest = m,
                                           ![j].parsed = TRUE,
                                           ![j].video = video, ![j].audio = audio,
                                           ![j].err = "No video adaptation set found"]
                   /\ hostOut' = SendMessage(hostOut, [event |-> "error", id |-> j,
                                                       error |-> "No video adaptation set found"])
              ELSE /\ host' = [host EXCEPT ![j].pc = "video", ![j].manifest = m,
                                           ![j].parsed = TRUE,
                                           ![j].video = video, ![j].audio = audio,
                                           ![j].tmpDir = TRUE]
                   /\ UNCHANGED hostOut
  /\ UNCHANGED << swVars, workerVars, ipcVars >>

\* downloadAdaptationSet of the video or the audio set, which has n
\* segments: with none it throws, otherwise <type>.mp4 is opened.
DashTrackOpen(j, n) ==
  /\ host[j].pc \in {"video", "audio"}
  /\ IF n = 0 THEN HostFail(j, "No segments in adaptation set")
     ELSE /\ host' = [host EXCEPT ![j].pc = IF host[j].pc = "video" THEN "videoDl" ELSE "audioDl",
                                  ![j].n = n, ![j].i = 0,
                                  ![j].tracks = @ \cup {host[j].pc}]
          /\ UNCHANGED hostOut
  /\ UNCHANGED << swVars, workerVars, ipcVars >>

\* downloadAdaptationSet: one segment is appended to the track's file (or its
\* fetch fails); the video track reports progress.  After the last segment
\* of the video track downloadDASH goes on to the audio track, or, there
\* being none, renames video.mp4 to the output path and removes the
\* directory; after the last of the audio track it merges.
DashSegment(j, ok, tick) ==
  /\ host[j].pc \in {"videoDl", "audioDl"}
  /\ IF ~ok THEN HostFail(j, "HTTP")
     ELSE LET last == host[j].i + 1 = host[j].n
              video == host[j].pc = "videoDl"
          IN  /\ host' =
                   IF ~last THEN [host EXCEPT ![j].i = @ + 1,
                                             ![j].bytes = IF video THEN @ + 1 ELSE @]
                   ELSE IF ~video THEN [host EXCEPT ![j].i = @ + 1, ![j].pc = "merge"]
                   ELSE IF host[j].audio # 0
                   THEN [host EXCEPT ![j].i = @ + 1, ![j].bytes = @ + 1, ![j].pc = "audio"]
                   ELSE [host EXCEPT ![j].i = @ + 1, ![j].bytes = @ + 1, ![j].pc = "convert",
                                     ![j].tracks = @ \ {"video"}, ![j].renamed = TRUE,
                                     ![j].tmpDir = FALSE]
              /\ hostOut' = IF tick /\ video
                            THEN SendMessage(hostOut, [event |-> "progress", id |-> j,
                                                       bytesReceived |-> host[j].bytes + 1,
                                                       totalBytes |-> Null])
                            ELSE hostOut
  /\ UNCHANGED << swVars, workerVars, ipcVars >>

\* downloadDASH: mergeVideoAudio runs ffmpeg; on success both track files
\* and the directory are removed.
DashMerge(j, ok) ==
  /\ host[j].pc = "merge"
  /\ IF ok
     THEN /\ host' = [host EXCEPT ![j].pc = "convert", ![j].muxed = TRUE,
                                  ![j].tracks = {}, ![j].tmpDir = FALSE]
          /\ UNCHANGED hostOut
     ELSE /\ host' = [host EXCEPT ![j].pc = "failed", ![j].muxed = TRUE,
                                  ![j].err = "ffmpeg exited"]
          /\ hostOut' = SendMessage(hostOut, [event |-> "error", id |-> j,
                                              error |-> "ffmpeg exited"])
  /\ UNCHANGED << swVars, workerVars, ipcVars >>

\* handleDownload: the conversion ends; done, or the catch.
HostFinish(j, ok) ==
  /\ host[j].pc = "convert"
  /\ IF ok THEN /\ host' = [host EXCEPT ![j].pc = "done"]
                /\ hostOut' = SendMessage(hostOut, [event |-> "done", id |-> j])
     ELSE HostFail(j, "convert")
  /\ UNCHANGED << swVars, workerVars, ipcVars >>

\* The port's onMessage listener runs handleNativeMessage on the next frame.
HostDeliver ==
  /\ hostOut # << >>
  /\ nativePort = "open"
  /\ CommitSw(HandleNativeMsg(Cur, Head(hostOut)))
  /\ hostOut' = Tail(hostOut)
  /\ UNCHANGED << host, workerVars, ipcVars, dlBytes, nCommands, nFaults, onlyEnqueues, cycles >>

HlsNext ==
  \/ \E kind \in JobKinds : Enqueue(kind)
  \/ \E j \in JobIds : HostDownload(j)
  \/ \E j \in JobIds, ok \in BOOLEAN : HlsFetchMaster(j, ok)
  \/ \E j \in JobIds, ok \in BOOLEAN, n \in 0..MaxSegments : HlsFetchMedia(j, ok, n)
  \/ \E j \in JobIds : HlsRequest(j)
  \/ \E j \in JobIds, ok \in BOOLEAN, tick \in BOOLEAN : HlsSegment(j, ok, tick)
  \/ \E j \in JobIds, ok \in BOOLEAN : HlsConcat(j, ok)
  \/ \E j \in JobIds, ok \in BOOLEAN : HostFinish(j, ok)
  \/ HostDeliver

HlsInit == InitWith([jobs |-> MaxHlsJobs, disturbances |-> 0]) /\ nativeApi = TRUE

HlsSpec == HlsInit /\ [][HlsNext]_vars

\* The jobs enqueueJob is given for an MPD manifest.
DashKinds == { [mode |-> "dash", httpUrl |-> TRUE] }

DashNext ==
  \/ HlsNext
  \/ \E kind \in DashKinds : Enqueue(kind)
  \/ \E j \in JobIds, ok \in BOOLEAN, m \in DashManifests : DashFetchMpd(j, ok, m)
  \/ \E j \in JobIds, n \in 0..MaxDashSegments : DashTrackOpen(j, n)
  \/ \E j \in JobIds, ok \in BOOLEAN, tick \in BOOLEAN : DashSegment(j, ok, tick)
  \/ \E j \in JobIds, ok \in BOOLEAN : DashMerge(j, ok)

DashInit == InitWith([jobs |-> MaxDashJobs, disturbances |-> 0]) /\ nativeApi = TRUE

DashSpec == DashInit /\ [][DashNext]_vars

\* One MPD job and every manifest of up to MaxPlaylists playlists.
SelectNext ==
  \/ \E kind \in DashKinds : Enqueue(kind)
  \/ \E j \in JobIds : HostDownload(j)
  \/ \E j \in JobIds, ok \in BOOLEAN, m \in Manifests : DashFetchMpd(j, ok, m)
  \/ \E j \in JobIds, n \in 0..MaxDashSegments : DashTrackOpen(j, n)
  \/ \E j \in JobIds, ok \in BOOLEAN, tick \in BOOLEAN : DashSegment(j, ok, tick)
  \/ \E j \in JobIds, ok \in BOOLEAN : DashMerge(j, ok)
  \/ \E j \in JobIds, ok \in BOOLEAN : HostFinish(j, ok)
  \/ HostDeliver

SelectInit == InitWith([jobs |-> MaxSelectJobs, disturbances |-> 0]) /\ nativeApi = TRUE

SelectSpec == SelectInit /\ [][SelectNext]_vars

\* The items enqueued for a direct download, with or without a size.
RateKinds == { [mode |-> "http", httpUrl |-> TRUE, size |-> z] : z \in {0, MaxBytes} }

\* The native host with a clock: download commands with and without an expected
\* total, progress callbacks of ffmpeg at any time.
RateNext ==
  \/ \E id \in WorkerIds, total \in {0, MaxRateBytes} : StartWith(id, FALSE, total)
  \/ \E r \in DOMAIN runs, d \in 0..MaxRateDelta : SendProgress(r, d)
  \/ \E r \in DOMAIN runs, ok \in BOOLEAN : RunDownloadEnds(r, ok)
  \/ \E r \in DOMAIN runs, ok \in BOOLEAN : RunRename(r, ok)
  \/ \E j \in 1..MaxRateStarts, total \in {Null, MaxRateBytes} : HostHttp(j, total)
  \/ \E j \in 1..MaxRateStarts, d \in 1..MaxRateDelta : HostChunk(j, d)
  \/ \E kind \in RateKinds : Enqueue(kind)
  \/ \E j \in JobIds : DownloadStarts(j, TRUE)
  \/ \E id \in DOMAIN downloads, total \in {0, MaxBytes} : DownloadBytes(id, total)
  \/ TimePasses(RateStep)

\* The downloads of a behaviour are those of the Go worker, of the node host
\* or of the browser.
RateInit ==
  \E side \in {"go", "node", "browser"} :
    /\ WorkerInitWith([starts |-> IF side = "go" THEN MaxRateStarts ELSE 0, cancels |-> 0,
                       progress |-> MaxRateEvents, others |-> 0, paths |-> 1])
    /\ SwInit([jobs |-> IF side = "browser" THEN MaxRateStarts ELSE 0, disturbances |-> 0,
               side |-> side])
    /\ nativeApi = TRUE

RateSpec == RateInit /\ [][RateNext]_vars

\* ------------------------------------------------------------------ claims

ActiveCount == Cardinality({j \in DOMAIN jobs : jobs[j].state = "active"})

IsSuffix(s, t) ==
  /\ Len(s) <= Len(t)
  /\ s = SubSeq(t, Len(t) - Len(s) + 1, Len(t))

IsDirect(j) == jobs[j].mode = "http" /\ jobs[j].httpUrl

\* C1: the number of jobs whose state is "active" never exceeds
\* MAX_CONCURRENT, whatever the jobs' modes and whatever handlers have run.
C1_ActiveBound == ActiveCount <= MAX_CONCURRENT

\* Two jobs active and one pending, after a failure and a user request.
C1_Witness ==
  /\ ActiveCount = MAX_CONCURRENT
  /\ Len(jobQueue) > 0
  /\ nCommands > 0
  /\ nFaults > 0
  /\ \E j \in DOMAIN jobs : jobs[j].mode # jobs[1].mode

\* Three direct jobs, A = 1, B = 2, C = 3, and no user request or failure.
ThreeDirect ==
  /\ jobIdCounter = 3
  /\ \A j \in 1..3 : IsDirect(j)
  /\ nCommands = 0
  /\ nFaults = 0

\* C2: right after enqueueing three direct jobs into the empty manager, A and
\* B are active and C is queued; when A then completes, C becomes active in
\* the same step, with no further command.
C2_Scenario ==
  /\ [](onlyEnqueues /\ ThreeDirect =>
          /\ jobs[1].state = "active" /\ jobs[2].state = "active"
          /\ jobs[3].state = "queued"
          /\ activeJobs = {1, 2} /\ jobQueue = <<3>>)
  /\ [][ThreeDirect /\ activeJobs = {1, 2} /\ jobQueue = <<3>>
        /\ jobs[1].state = "active" /\ jobs'[1].state = "complete"
        => /\ jobs'[3].state = "active"
           /\ activeJobs' = {2, 3}
           /\ jobQueue' = << >>
           /\ nCommands' = 0]_vars

\* A has completed and C runs beside B.
C2_Witness ==
  /\ ThreeDirect
  /\ jobs[1].state = "complete"
  /\ jobs[2].state = "active"
  /\ jobs[3].state = "active"
  /\ activeJobs = {2, 3}

\* What the pending list is before the handler's processQueue: a fresh job
\* at the back, a job whose backoff expired at the front.
PendingBeforeAdmission ==
  IF jobIdCounter' # jobIdCounter THEN Append(jobQueue, jobIdCounter')
  ELSE IF cycles' # cycles
       THEN << CHOOSE j \in JobIds : cycles'[j] # cycles[j] >> \o jobQueue
  ELSE jobQueue

\* C3: jobs leave the pending list from its front only (FIFO), a fresh job
\* enters at the back and a job whose backoff expired at the front, ahead of
\* every fresh job; it is admitted only while the active map is below the
\* limit, and left pending only when the map is full.
C3_AdmissionOrder ==
  [][/\ nCommands' = nCommands => IsSuffix(jobQueue', PendingBeforeAdmission)
     /\ nCommands' # nCommands =>
          \/ IsSuffix(jobQueue', jobQueue)
          \/ \E i \in 1..Len(jobQueue) : jobQueue' = Splice(jobQueue, i)
     /\ Cardinality(activeJobs') <= MAX_CONCURRENT
     /\ Len(jobQueue') > 0 => Cardinality(activeJobs') = MAX_CONCURRENT]_vars

\* A retried job runs again while two fresh jobs are still pending, in the
\* order of their enqueue.
C3_Witness ==
  \E a \in activeJobs :
    /\ cycles[a] > 0
    /\ jobs[a].state = "active"
    /\ Len(jobQueue) = 2
    /\ jobQueue[1] < jobQueue[2]
    /\ \A i \in 1..2 : cycles[jobQueue[i]] = 0 /\ jobs[jobQueue[i]].state = "queued"


\* Job j is a direct download and the user made no request: every failure
\* of j was the browser refusing or interrupting its download.
NetworkFailuresOnly(j) == IsDirect(j) /\ nCommands = 0

\* C4: a job whose every attempt fails with a retryable network error goes
\* through exactly maxRetries retrying->queued cycles before it reaches
\* state error.
C4_ExactlyMaxRetriesCycles ==
  \A j \in DOMAIN jobs :
    NetworkFailuresOnly(j) /\ jobs[j].state = "error" => cycles[j] = jobs[j].maxRetries

\* The timers a step schedules.
NewTimers == {t \in BagToSet(timers') : CopiesIn(t, timers') > CopiesIn(t, timers)}

\* C5: the backoff delay scheduled when a job fails with k retries already
\* consumed (its retries counter before the failure) is
\* min(1000 * 2^k, 30000) ms.
C5_BackoffFromConsumedRetries ==
  [][\A t \in NewTimers :
       LET k == IF t.job \in DOMAIN jobs THEN jobs[t.job].retries ELSE 0
       IN  t.delay = Min(BACKOFF_BASE_MS * Pow2(k), BACKOFF_CAP_MS)]_vars

InQueue(q, j) == \E i \in 1..Len(q) : q[i] = j

\* C6: once a job's state is complete, error or cancelled it never changes
\* state again and is never put back into the pending list or the active map.
C6_TerminalIsFinal ==
  [][\A j \in DOMAIN jobs :
       jobs[j].state \in Terminal =>
         /\ jobs'[j].state = jobs[j].state
         /\ j \notin activeJobs'
         /\ ~InQueue(jobQueue', j)]_vars

\* The record the queue manager holds, without the pending list and job j.
Others(S, j) ==
  [S EXCEPT !.jobQueue = << >>,
            !.jobs = [k \in DOMAIN S.jobs |-> IF k = j THEN "-" ELSE S.jobs[k]]]

\* C9: in every reachable state, cancelJob on a job that is in the pending
\* list (and not in the active map) removes that one entry from the list,
\* keeping the order of the rest, marks the job cancelled, and changes nothing
\* else: no other job record, not the active map, no timer, no download of
\* the browser, no message to the worker.
C9_CancelQueuedFrame ==
  \A j \in DOMAIN jobs :
    j \notin activeJobs /\ InQueue(jobQueue, j) =>
      LET R == CancelJob(Cur, j)
      IN  /\ \E i \in 1..Len(jobQueue) : jobQueue[i] = j /\ R.jobQueue = Splice(jobQueue, i)
          /\ R.jobs[j] = [jobs[j] EXCEPT !.state = "cancelled"]
          /\ Others(R, j) = Others(Cur, j)

\* A job was cancelled from the middle of a pending list of three, with two
\* jobs active: it never started, and the other two kept their order.
C9_Witness ==
  \E j \in DOMAIN jobs :
    /\ jobs[j].state = "cancelled"
    /\ jobs[j].retries = 0 /\ jobs[j].downloadId = 0
    /\ pendingCb[j] = 0 /\ wRuns[j] = 0 /\ j \notin wKnown
    /\ Cardinality(activeJobs) = MAX_CONCURRENT
    /\ Len(jobQueue) = 2 /\ jobQueue[1] < j /\ j < jobQueue[2]
    /\ nCommands = 1 /\ nFaults = 0

\* C10: cancellation never consumes retry budget and never leads to a retry:
\* while the environment injects no failure of its own (so that every failure
\* event is one a cancellation provoked), no step changes the retries counter
\* of a cancelled job or schedules a backoff timer for it, and the step that
\* cancels a job does neither.
C10_CancelledNeverRetried ==
  [][\A j \in DOMAIN jobs :
       /\ nFaults' = 0
       /\ IsDirect(j)
       /\ jobs[j].state = "cancelled" \/ jobs'[j].state = "cancelled"
       => /\ jobs'[j].retries = jobs[j].retries
          /\ \A t \in NewTimers : t.job # j]_vars


Settled(j) ==
  /\ j \in DOMAIN jobs
  /\ jobs[j].state \in Terminal \cup {"paused"}

\* C8: under fair scheduling every enqueued job eventually reaches complete,
\* error or cancelled, unless the user holds it paused.
C8_NoDangling ==
  \A j \in JobIds : [](j \in DOMAIN jobs => <>Settled(j))


RECURSIVE CountEvents(_, _, _)
CountEvents(o, types, id) ==
  IF o = << >> THEN 0
  ELSE (IF Head(o).type \in types /\ Head(o).id = id THEN 1 ELSE 0)
       + CountEvents(Tail(o), types, id)

StartsOf(id) == Cardinality({r \in DOMAIN runs : runs[r].id = id})

\* C7: the worker never emits more terminal events (done, error, canceled)
\* with a job's id than it accepted download commands with that id.
C7_OneTerminalPerDownload ==
  \A id \in WorkerIds :
    CountEvents(out, {"done", "error", "canceled"}, id) <= StartsOf(id)

\* Job j has a mode with no strategy (blob) or a URL that is not http(s).
IsBlocked(j) == jobs[j].mode = "blob" \/ ~jobs[j].httpUrl

\* C11: a job whose mode is blocked goes from active directly to error on
\* its first start: it is never retrying, its retries counter stays 0 and it
\* is never put back into the pending list by a retry timer.
C11_BlockedModeIsFatal ==
  \A j \in DOMAIN jobs :
    IsBlocked(j) =>
      /\ jobs[j].state # "retrying"
      /\ jobs[j].retries = 0
      /\ cycles[j] = 0

\* The host's report of job j's failure has been handled by the queue manager.
Reported(j) == host[j].pc = "failed" /\ \A k \in 1..Len(hostOut) : hostOut[k].id # j

\* C12: an hls job whose media playlist has no segments fails before any
\* segment is fetched or temporary directory made, and once the failure has
\* been reported the queue manager holds the job in state error, with no
\* retry consumed and no backoff timer.
C12_ManifestEmptyIsFatal ==
  \A j \in DOMAIN jobs :
    host[j].err = "No segments found in HLS stream" =>
      /\ host[j].i = 0 /\ ~host[j].tmpDir
      /\ Reported(j) =>
           /\ jobs[j].state = "error"
           /\ jobs[j].retries = 0
           /\ \A t \in BagToSet(timers) : t.job # j

\* C13: no step lowers the bytesReceived of a job's record, from its
\* admission to its terminal state, retries and progress messages included.
C13_BytesNeverDecrease ==
  [][\A j \in DOMAIN jobs : jobs'[j].bytesReceived >= jobs[j].bytesReceived]_vars

\* C15: in every state a job's percent is an integer in [0,100] when its
\* expected total size is known and positive, and null otherwise.
C15_PercentRangeOrNull ==
  \A j \in DOMAIN jobs :
    IF jobs[j].size # Null /\ jobs[j].size > 0
    THEN jobs[j].percent \in 0..100
    ELSE jobs[j].percent = Null

\* C14: the progress events the worker emits for one job (an id started
\* once) carry non-decreasing bytesReceived in emission order, the boundary
\* between download and conversion included.
C14_ProgressBytesMonotone ==
  \A a, b \in DOMAIN out :
    /\ a < b
    /\ out[a].type = "progress" /\ out[b].type = "progress"
    /\ out[a].id = out[b].id /\ StartsOf(out[a].id) = 1
    => out[a].bytesReceived <= out[b].bytesReceived

\* The step handles a command read by main's loop.
CommandStep ==
  nOthers' # nOthers \/ nCancels' # nCancels \/ Len(runs') # Len(runs)

\* The events the step sends.
NewEvents == SubSeq(out', Len(out) + 1, Len(out'))

\* C18: each hello command the worker receives is answered with a hello
\* reply.
C18_HelloAnswered ==
  [][CommandStep /\ msgType' = "hello" =>
       Len(NewEvents) = 1 /\ NewEvents[1].type = "hello"]_vars

\* The command types the protocol names.
Recognised == {"hello", "probe", "download", "cancel", "shutdown"}

\* C19: a command of no recognised type is answered with exactly one
\* log/warn unknown_command event echoing its type and changes no job state;
\* a command of a recognised type is never answered with unknown_command.
C19_UnknownCommandOnly ==
  [][CommandStep =>
       IF msgType' \notin Recognised
       THEN /\ NewEvents = << [type |-> "log", id |-> 0, level |-> "warn",
                               msg |-> "unknown_command", cmd |-> msgType'] >>
            /\ UNCHANGED << mgrJobs, runs >>
       ELSE \A k \in DOMAIN NewEvents : NewEvents[k].type # "log"]_vars

\* No progress or done event of an id started once follows its canceled event.
QuietAfterCanceled ==
  \A a, b \in DOMAIN out :
    /\ a < b
    /\ out[a].type = "canceled"
    /\ out[b].id = out[a].id /\ StartsOf(out[a].id) = 1
    => out[b].type \notin {"progress", "done"}

\* C20: every cancel command is answered with a canceled event, and after
\* the canceled event of an id no progress or done event of that id follows.
C20_CancelAnsweredAndFinal ==
  [][/\ CommandStep /\ msgType' = "cancel" =>
          Len(NewEvents) = 1 /\ NewEvents[1].type = "canceled"
     /\ QuietAfterCanceled']_vars

RECURSIVE Frames(_)
Frames(ms) == IF ms = << >> THEN << >> ELSE Frame(Head(ms)) \o Frames(Tail(ms))

\* C16: for every message sent, ReadMsg returns the messages sent so far, in
\* order and identical, and has consumed exactly their frames.
C16_FramingRoundTrip ==
  /\ Len(received) <= Len(sentLog)
  /\ \A i \in DOMAIN received : received[i] = [ok |-> TRUE, msg |-> sentLog[i]]
  /\ readPos = Len(Frames(SubSeq(sentLog, 1, Len(received))))

\* C17: the bytes written to stdout are the whole frames of the messages
\* sent, followed at most by the length prefix of the one being sent.
C17_WholeFrames ==
  \E rest \in { << >> } \cup { LE32(Len(Marshal(sender[t].msg))) : t \in {u \in Senders : sender[u].pc = "prefix"} } :
    wire = Frames(sentLog) \o rest

\* Two goroutines are in Send at once after a first frame: one holds the
\* lock with its prefix written, the other waits at sendMu.Lock().
C17_Witness ==
  /\ Len(sentLog) > 0
  /\ \E t, u \in Senders :
       /\ t # u
       /\ sender[t].pc = "prefix"
       /\ sender[u].pc = "waiting"
       /\ sendMu = t

\* The last event of the output, written by this step.
Emitted == IF Len(out') = Len(out) + 1 THEN out'[Len(out')] ELSE [type |-> "", id |-> 0]

\* The run of the job this step reports as failed or cancelled: the one
\* Manager.Cancel found in its map, or the one whose Job.run returns.
Reporting(r) ==
  \/ /\ Emitted.type = "canceled"
     /\ Emitted.id \in DOMAIN mgrJobs
     /\ mgrJobs[Emitted.id] = r
  \/ /\ Emitted.type = "error"
     /\ runs[r].pc # "finished"
     /\ runs'[r].pc = "finished"

\* C21: when the worker emits the error or canceled event of a job, the job's
\* .part and .part.converted files are gone and its ffmpeg has terminated.
C21_ArtifactsGoneWhenReported ==
  [][\A r \in DOMAIN runs :
       Reporting(r) =>
         /\ files'[runs[r].out].part = "none"
         /\ files'[runs[r].out].converted = "none"
         /\ ~runs'[r].ffmpeg]_vars


\* The run whose Job.run sends done in this step.
Completing(r) ==
  /\ Emitted.type = "done"
  /\ runs[r].pc # "finished"
  /\ runs'[r].pc = "finished"

\* C22: done is emitted only by a run that is past its download and its
\* conversion and has renamed its file to the final path, no .part file of
\* the job is left then, and no final path ever holds a partly written file.
C22_DoneAfterAtomicPlacement ==
  [][/\ \A r \in DOMAIN runs :
          Completing(r) =>
            /\ runs[r].pc = "rename"
            /\ files'[runs[r].out].final # "none"
            /\ files'[runs[r].out][TmpOut(r)] = "none"
     /\ \A p \in OutPaths : files'[p].final # "partial"]_vars


\* C23: a job becomes paused only from active, a paused job becomes only
\* active or cancelled, and pauseJob and resumeJob change nothing for a job
\* that is queued, retrying or terminal.
C23_PausedTransitions ==
  [][\A j \in DOMAIN jobs :
       /\ (jobs[j].state # "paused" /\ jobs'[j].state = "paused") => jobs[j].state = "active"
       /\ jobs[j].state = "paused" => jobs'[j].state \in {"paused", "active", "cancelled"}
       /\ jobs[j].state \in {"queued", "retrying"} \cup Terminal =>
            PauseJob(Cur, j) = Cur /\ ResumeJob(Cur, j) = Cur]_vars


\* C24: the ids of the jobs enqueued so far are pairwise distinct, and no
\* step changes the id of a job.
C24_IdsDistinctAndStable ==
  [][/\ \A i, j \in DOMAIN jobs' : i # j => jobs'[i].id # jobs'[j].id
     /\ \A j \in DOMAIN jobs : jobs'[j].id = jobs[j].id]_vars

\* Three jobs were enqueued at the same millisecond, and one of them has been
\* admitted, retried, paused or ended since.
C24_Witness ==
  /\ Len(jobs) = MaxIdJobs
  /\ \A i, j \in DOMAIN jobs : SubSeq(jobs[i].id, 1, 6) = SubSeq(jobs[j].id, 1, 6)
  /\ \E j \in DOMAIN jobs : jobs[j].state \in {"paused", "cancelled", "retrying"}
  /\ \E j \in DOMAIN jobs : jobs[j].state = "active"


\* downloadHLS has returned or thrown.
HlsLeft(j) == jobs[j].mode = "hls" /\ host[j].pc \in {"failed", "convert", "done"}

\* C28: once downloadHLS has returned or thrown, none of its segment files
\* and no temporary directory of its own remains.
C28_HlsCleansUp ==
  \A j \in DOMAIN jobs : HlsLeft(j) => host[j].segs = {} /\ ~host[j].tmpDir

\* The numbers 0 .. n-1 in order.
Upto(n) == [x \in 1..n |-> x - 1]

\* C30: downloadHLS requests the segments in playlist order, the next one
\* only when the one before is written, and gives the assembler the paths of
\* all segments in playlist order, each once.
C30_SegmentsInOrder ==
  \A j \in DOMAIN jobs :
    /\ host[j].req = Upto(Len(host[j].req))
    /\ host[j].paths = Upto(Len(host[j].paths))
    /\ Len(host[j].req) <= Len(host[j].paths) + 1
    /\ host[j].concatIn # << >> => host[j].concatIn = Upto(host[j].n)

\* A playlist of three segments has been fetched and concatenated.
C30_Witness ==
  \E j \in DOMAIN jobs :
    /\ host[j].n = MaxSegments
    /\ host[j].concatIn = << 0, 1, 2 >>
    /\ host[j].pc = "done"


\* The manifest of dash job j has a video adaptation set and no audio one.
VideoOnly(j) ==
  /\ jobs[j].mode = "dash"
  /\ host[j].parsed
  /\ \E k \in DOMAIN host[j].manifest : host[j].manifest[k].codecs \in VideoCodecs
  /\ \A k \in DOMAIN host[j].manifest : host[j].manifest[k].codecs \notin AudioCodecs

\* C25: a dash job with a video adaptation set and no audio one does not fail
\* for want of a set, never runs the mux, and leaves downloadDASH with the
\* video file renamed to the output.
C25_VideoOnlyDash ==
  \A j \in DOMAIN jobs :
    VideoOnly(j) =>
      /\ host[j].err # "No video adaptation set found"
      /\ ~host[j].muxed
      /\ host[j].pc \in {"convert", "done"} => host[j].renamed

\* downloadDASH has returned or thrown.
DashLeft(j) == jobs[j].mode = "dash" /\ host[j].pc \in {"failed", "convert", "done"}

\* C29: once downloadDASH has returned or thrown, none of its per-track files
\* and no temporary directory of its own remains.
C29_DashCleansUp ==
  \A j \in DOMAIN jobs : DashLeft(j) => host[j].tracks = {} /\ ~host[j].tmpDir


\* A network read or a subprocess wait is in progress: the ffmpeg of a
\* download or of a conversion, or the ffprobe of a probe.
WaitInProgress ==
  \/ probing
  \/ \E r \in DOMAIN runs : runs[r].pc \in {"download", "convert"}

\* main is in ipc.ReadMsg, where it takes the next command.
AtReadMsg == ~stopped /\ ~probing

\* C26: while a download, a conversion or a probe is in progress, the command
\* loop is reading commands.
C26_LoopNeverBlocked == (~stopped /\ WaitInProgress) => AtReadMsg

\* C27: among the events of a job the worker has started, job-started comes
\* before every progress, done, error and canceled event.
C27_JobStartedFirst ==
  \A k \in 1..Len(out) :
    out[k].type \in {"progress", "done", "error", "canceled"} /\ out[k].id \in WorkerIds =>
      \E x \in 1..(k - 1) : out[x].type = "job-started" /\ out[x].id = out[k].id

\* Two jobs have been started and one has sent progress, the other an end.
C27_Witness ==
  /\ \E k \in 1..Len(out) : out[k].type = "progress"
  /\ \E k \in 1..Len(out) : out[k].type \in {"done", "error"}
  /\ \E k \in 1..Len(out) : out[k].type = "canceled"
  /\ Cardinality({out[k].id : k \in 1..Len(out)}) = 2

\* The playlists of job j's manifest whose codec indicates audio.
AudioSets(j) ==
  { k \in DOMAIN host[j].manifest : host[j].manifest[k].codecs \in AudioCodecs }

\* C31: of a parsed manifest the audio set selected is, among the sets whose
\* codec indicates audio, one of the highest bandwidth; with no such set
\* none is selected and the job does not fail for it.
C31_BestAudioSelected ==
  \A j \in DOMAIN jobs :
    host[j].parsed =>
      IF AudioSets(j) = {}
      THEN /\ host[j].audio = 0
           /\ ~host[j].muxed
           /\ host[j].err = "No video adaptation set found"
                => SelectBestVideo(host[j].manifest) = 0
      ELSE /\ host[j].audio \in AudioSets(j)
           /\ \A k \in AudioSets(j) :
                host[j].manifest[host[j].audio].bandwidth >= host[j].manifest[k].bandwidth

\* The progress events in the worker's output, by position.
ProgressEvents == { k \in DOMAIN out : out[k].type = "progress" }

\* The progress events in the node host's output, by position.
HostProgressEvents == { k \in DOMAIN hostOut : hostOut[k].event = "progress" }

\* C32: of the progress events the worker emits for one job (an id started
\* once), any two are at least 0.5 s apart, and the first comes at least
\* 0.5 s after the job's start, however often ffmpeg reports bytes; any two
\* progress events the node host emits for one job are at least 0.5 s apart.
C32_ProgressRateLimited ==
  /\ \A a, b \in ProgressEvents :
       a < b /\ out[a].id = out[b].id /\ StartsOf(out[a].id) = 1
         => out[b].at - out[a].at >= 500
  /\ \A r \in DOMAIN runs :
       runs[r].progress > 0 => runs[r].lastTick - MinClock >= 500
  /\ \A a, b \in HostProgressEvents :
       a < b /\ hostOut[a].id = hostOut[b].id => hostOut[b].at - hostOut[a].at >= 500

\* Three progress events of one job, each 0.5 s after the one before.
C32_Witness ==
  \E a, b, c \in ProgressEvents :
    /\ a < b /\ b < c
    /\ out[a].id = out[b].id /\ out[b].id = out[c].id
    /\ out[b].at - out[a].at = 500 /\ out[c].at - out[b].at = 500
    /\ clock > out[c].at

\* The ETA the estimate prescribes for a job of expected size total (0 or
\* Null: unknown) that has received bytes at a smoothed speed of ema.
ExpectedEta(total, bytes, ema) ==
  IF total # Null /\ total > 0 /\ ema # Zero
  THEN CeilDiv(IF total - bytes < 0 THEN 0 ELSE total - bytes, ema)
  ELSE Null

\* The step in which run r sends a progress event.
SendsProgress(r) ==
  /\ r \in DOMAIN runs
  /\ runs'[r].progress = runs[r].progress + 1
  /\ Len(out') = Len(out) + 1
  /\ out'[Len(out')].type = "progress"

\* C33: the etaSec of every progress event the worker sends, and the
\* etaSeconds of every job record, is ceil(remaining / speed) (0 when nothing
\* remains) when the expected total is known and the smoothed speed is
\* positive, and null otherwise.
C33_EtaCeilOrNull ==
  [][/\ \A r \in DOMAIN runs :
          SendsProgress(r) =>
            out'[Len(out')].etaSec =
              ExpectedEta(runs[r].ExpTotal, out'[Len(out')].bytesReceived, runs'[r].speedEMA)
     /\ \A j \in DOMAIN jobs' :
          jobs'[j].etaSeconds =
            ExpectedEta(jobs'[j].size, jobs'[j].bytesReceived, jobs'[j].speedBytesPerSec)]_vars

\* The instantaneous speed of db more bytes in dt ms: 0 when dt <= 0 or
\* db < 0.
Instant(db, dt) == IF dt > 0 /\ db >= 0 THEN Rat(db * 1000, dt) ELSE Zero

\* Run r of the worker, or job j of the queue manager, takes a speed sample
\* in this step.
RunSamples(r) == r \in DOMAIN runs /\ runs'[r].lastTick # runs[r].lastTick

JobSamples(j) == j \in DOMAIN jobs /\ jobs'[j].lastTick # jobs[j].lastTick

\* C34: the first speed sample of a job is taken as its estimate, and every
\* later sample sets the estimate to 0.25 * instant + 0.75 * estimate, instant
\* being the bytes since the last sample over the time since it, in the
\* worker's jobs and in the queue manager's records.
C34_SpeedSeededThenSmoothed ==
  [][/\ \A r \in DOMAIN runs :
          RunSamples(r) =>
            LET inst == Instant(runs'[r].lastBytes - runs[r].lastBytes,
                                runs'[r].lastTick - runs[r].lastTick)
            IN  runs'[r].speedEMA = IF runs[r].progress = 0 THEN inst
                                    ELSE Ema(inst, runs[r].speedEMA)
     /\ \A j \in DOMAIN jobs :
          JobSamples(j) =>
            LET inst == Instant(jobs'[j].bytesReceived - jobs[j].bytesReceived,
                                jobs'[j].lastTick - jobs[j].lastTick)
            IN  jobs'[j].speedBytesPerSec \in { inst, Ema(inst, jobs[j].speedBytesPerSec) }]_vars

\* C35: in every state (the handlers run to their end in one step) the
\* pending list is non-empty only if the active map holds MAX_CONCURRENT jobs.
C35_WorkConserving ==
  Len(jobQueue) > 0 => Cardinality(activeJobs) >= MAX_CONCURRENT

\* A job is pending while the active map is full, one of its jobs waiting
\* for its second retry and the other one paused.
C35_Witness ==
  /\ Len(jobQueue) > 0
  /\ Cardinality(activeJobs) = MAX_CONCURRENT
  /\ \E j \in activeJobs : jobs[j].state = "retrying" /\ jobs[j].retries = 2
  /\ \E j \in activeJobs : jobs[j].state = "paused"

\* C36: no job is in the pending list and in the active map at once, and no
\* job is in the pending list twice.
C36_OneCopyPerJob ==
  /\ \A k \in DOMAIN jobQueue : jobQueue[k] \notin activeJobs
  /\ \A a, b \in DOMAIN jobQueue : a # b => jobQueue[a] # jobQueue[b]

\* The retry timer of a job that was cancelled meanwhile has put it back in
\* the pending list, where it waits behind a full active map.
C36_Witness ==
  /\ Cardinality(activeJobs) = MAX_CONCURRENT
  /\ \E k \in DOMAIN jobQueue :
       jobs[jobQueue[k]].state = "cancelled" /\ cycles[jobQueue[k]] > 0

\* The retry timer of job j fires in this step.
TimerFires(j) == cycles'[j] = cycles[j] + 1

\* C37: a job whose state is "retrying" is in the active map, and when its
\* timer fires while it is still there it is started again in that step: it
\* is not left in the pending list.
C37_RetryingKeepsSlot ==
  [][/\ \A j \in DOMAIN jobs : jobs[j].state = "retrying" => j \in activeJobs
     /\ \A j \in DOMAIN jobs :
          TimerFires(j) /\ j \in activeJobs => ~InQueue(jobQueue', j)]_vars

\* C38: no step lowers a job's retries counter, and the counter never
\* exceeds the job's maxRetries.
C38_RetriesBounded ==
  [][\A j \in DOMAIN jobs :
       /\ jobs'[j].retries >= jobs[j].retries
       /\ jobs'[j].retries <= jobs'[j].maxRetries]_vars

\* A job has failed maxRetries times and is in state error, after a late
\* failure has made another job, cancelled before, retry.
C38_Witness ==
  /\ \E j \in DOMAIN jobs :
       jobs[j].retries = jobs[j].maxRetries /\ jobs[j].state = "error" /\ cycles[j] = 2
  /\ \E i \in DOMAIN jobs : jobs[i].state = "retrying" /\ i \notin activeJobs

\* Run r has not emitted done or error yet and has not been cancelled.
Running(r) == runs[r].pc # "finished" /\ ~runs[r].ctxDone

\* C39: the worker's job map holds exactly the running jobs: every entry is
\* a run that is still running, and every running run is the entry of its id
\* (so that a cancel command reaches it).
C39_MapHoldsRunningJobs ==
  /\ \A id \in DOMAIN mgrJobs : Running(mgrJobs[id])
  /\ \A r \in DOMAIN runs :
       Running(r) => runs[r].id \in DOMAIN mgrJobs /\ mgrJobs[runs[r].id] = r


\* C40: the manager mutex, the job mutexes and the send mutex are taken in
\* one order, the send mutex last and alone with at most one of the others,
\* so while stdout takes bytes some goroutine that holds or awaits a lock
\* can take its next step.
C40_NoLockDeadlock ==
  /\ sendMu # "" => sender[sendMu].pc \in {"locked", "prefix"}
  /\ \A t \in Senders : sender[t].pc = "lockWait" => sendMu # t
  /\ (\E t \in Senders : sender[t].pc # "idle")
       => \E t \in Senders : sender[t].pc # "idle" /\ ENABLED ThreadStep(t)

\* All three locks are contended: Start holds m.mu and waits for sendMu, a
\* sendProgress holds the job's mutex and sendMu with its prefix written,
\* and another sendProgress waits for that job's mutex.
C40_Witness ==
  /\ sender["main"].op = "Start" /\ sender["main"].pc = "waiting"
  /\ sender["run1"].op = "sendProgress" /\ sender["run1"].pc = "prefix"
  /\ sendMu = "run1"
  /\ sender["run2"].pc = "lockWait" /\ sender["run2"].lock = sender["run1"].lock

=============================================================================
